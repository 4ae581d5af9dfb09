----------------------- MODULE ResponseTransactProofs -----------------------
(***************************************************************************)
(* Proofs about ResponseTransact, for every set of dates, groups, files    *)
(* and services and any number of slots, descriptors, lines and sessions.  *)
(* What is promised as long as no session thread has removed its own user  *)
(* rests on an invariant that ties four tables together: the slots of the  *)
(* users, the descriptors, the thread entries and the threads.             *)
(***************************************************************************)
EXTENDS ResponseTransact, NaturalLemmas

\* Whoever is in RemoveUser has a slot in hand, and so has a running thread.
SlotInHand ==
    /\ \A a \in Actors : remove[a].pc # "idle" => remove[a].offset \in Users
    /\ \A i \in Sessions : Running(i) => local[i].user_offset \in Users

\* The table has room for the thread of a service that connects.
TableHasRoom ==
    /\ Listen \in main.events => thread_count < MaxSessions
    /\ main.pc = "count" => Listen \notin main.events /\ thread_count < MaxSessions

\* An open file that was selected has a line to be read.
SelectedHasLine ==
    \A i \in Sessions : \A f \in Readable(i) : thread[i].read[f] < written[f]

BaseInv == SlotInHand /\ TableHasRoom /\ SelectedHasLine

----------------------------------------------------------------------------
(* As long as no session thread has removed its own user *)

\* Only the main thread is in RemoveUser, and then it is not accepting anybody.
OnlyMainRemoves ==
    /\ \A i \in Sessions : remove[i].pc = "idle"
    /\ remove[0].pc # "idle" => main.pc = "loop"
    /\ remove[0].pc # "close"

\* There are as many threads as were counted, and one more before it is counted.
Created ==
    /\ \A i \in Sessions :
          local[i].pc # "none" => i <= thread_count \/ (i = NewThread /\ main.pc = "count")
    /\ main.pc = "count" => Running(NewThread)

\* A running thread, its entry, its slot and its descriptor name each other.
SessionConn ==
    \A i \in Sessions : Running(i) =>
        /\ thread[i].user_offset = local[i].user_offset
        /\ conn[User(i).sockfd].session = i
        /\ conn[User(i).sockfd].client = User(i).login

Joined(i) == remove[0].pc = "wait" /\ remove[0].i = i

\* A counted entry that is not cleared is a running thread's, or of the one that
\* is being joined; only that one is told to end.
EntryInUse ==
    \A i \in Sessions :
        /\ i <= thread_count /\ thread[i].user_offset # 0 => Running(i) \/ Joined(i)
        /\ Running(i) /\ thread[i].thread_terminate => Joined(i)

\* It is one of the slot that the main thread is removing.
Waiting ==
    remove[0].pc = "wait" =>
        /\ remove[0].i \in 1 .. thread_count
        /\ thread[remove[0].i].thread_terminate
        /\ thread[remove[0].i].user_offset = remove[0].offset

\* A slot in use has an open descriptor, until the main thread has closed it,
SlotConn ==
    \A o \in Users : response_user[o].sockfd # 0 =>
        IF Leaving(o) /\ remove[0].pc = "clear"
        THEN conn[response_user[o].sockfd].session = 0
        ELSE conn[response_user[o].sockfd].session \in Sessions

\* one of its own,
SlotsApart ==
    \A o, p \in Users :
        response_user[o].sockfd = response_user[p].sockfd /\ response_user[o].sockfd # 0 => o = p

\* and a running thread, unless the main thread is removing it.
SlotServed ==
    \A o \in Users : response_user[o].sockfd # 0 /\ ~Leaving(o) =>
        \E i \in Sessions : Running(i) /\ local[i].user_offset = o

LeavingSlot == remove[0].pc # "idle" => response_user[remove[0].offset].sockfd # 0

\* An open descriptor has a slot and a session of its own.
ConnSlot ==
    /\ conn[0].session = -1
    /\ \A d \in Fds :
          /\ conn[d].gone => conn[d].session \in Sessions
          /\ conn[d].session \in Sessions =>
                /\ UsersOf(d) # {}
                /\ \/ conn[d].session <= thread_count
                   \/ /\ conn[d].session = NewThread
                      /\ main.pc = "count" \/ remove[0].pc # "idle"
    /\ \A d, e \in Fds : conn[d].session = conn[e].session /\ conn[d].session \in Sessions => d = e

\* The events in hand are of services that have hung up, none of them removed yet.
Events ==
    \A d \in main.events \ {Listen} :
        conn[d].gone /\ \A o \in UsersOf(d) : ~Leaving(o)

TableInv ==
    /\ OnlyMainRemoves /\ Created /\ SessionConn /\ EntryInUse /\ Waiting
    /\ SlotConn /\ SlotsApart /\ SlotServed /\ LeavingSlot /\ ConnSlot /\ Events

\* The lines that a service with login l received: those it wants, in their order,
InOrder(l, got) ==
    \A k \in DOMAIN got :
        /\ GroupMatches(l, got[k][1]) /\ Wants(l, got[k][1], got[k][2])
        /\ \A j \in 1 .. k - 1 : got[j][1] = got[k][1] => got[j][2] < got[k][2]

\* none beyond what was read,
Within(got, read) == \A k \in DOMAIN got : got[k][2] <= read[got[k][1]]

\* and all of those up to there.
Complete(l, got, read) ==
    \A f \in Files : \A n \in 1 .. read[f] :
        Wants(l, f, n) => \E k \in DOMAIN got : got[k] = <<f, n>>

\* A thread has opened only files of its service's group, and has sent nothing
\* beyond what it has read.
SentOfRead ==
    \A i \in Sessions : Running(i) =>
        /\ \A f \in thread[i].fp : GroupMatches(User(i).login, f)
        /\ Within(conn[User(i).sockfd].got, thread[i].read)

ReceivedInOrder == \A d \in Fds : InOrder(conn[d].client, conn[d].got)

ReceivedAll ==
    \A d \in Fds : conn[d].session \in Sessions /\ ~conn[d].gone =>
        Complete(conn[d].client, conn[d].got, thread[conn[d].session].read)

LinesInv == SentOfRead /\ ReceivedInOrder /\ ReceivedAll

\* Whoever has received a line, be the service gone or its thread ended since, has
\* received those before it.
WithoutGap(l, got) ==
    \A k \in DOMAIN got : \A m \in 1 .. got[k][2] - 1 :
        Wants(l, got[k][1], m) => \E j \in DOMAIN got : got[j] = <<got[k][1], m>>

WrittenInv ==
    \A d \in Fds : Within(conn[d].got, written) /\ WithoutGap(conn[d].client, conn[d].got)

IInv == TypeOK /\ BaseInv /\ (lapse = {} => TableInv /\ LinesInv /\ WrittenInv)
----------------------------------------------------------------------------
(* Types *)

MainRec   == [pc : {"down", "loop", "count"}, events : SUBSET ({Listen} \cup Fds)]
LocalRec  == [pc : {"none", "round", "done"}, user_offset : {0} \cup Users, readfds : SUBSET Files]
RemoveRec == [pc : {"idle", "find", "wait", "close", "clear"}, offset : {0} \cup Users, i : Actors]
UserRec   == [sockfd : Fds, login : Logins \cup {Nobody}]
ConnRec   == [session : {-1} \cup Actors, client : Logins \cup {Nobody},
              gone : BOOLEAN, got : Seq(Files \X LineNums)]

LEMMA ConstantFacts ==
    /\ Dates \subseteq Nat /\ Dates # {} /\ Files \subseteq Dates \X Groups
    /\ MaxLines \in Nat /\ MaxUsers \in Nat /\ MaxFd \in Nat
    /\ MaxSessions \in Nat /\ MaxSessions > 0
    /\ Users \subseteq Nat \ {0} /\ Sessions \subseteq Nat \ {0} /\ LineNums \subseteq Nat \ {0}
    /\ Fds \subseteq Nat /\ 0 \in Fds /\ Listen \notin Fds
    /\ Actors = {0} \cup Sessions /\ 0 \notin Sessions /\ 0 \notin Users
    /\ -1 \notin Actors
BY DateAssumption, FileAssumption, BoundAssumption
   DEF Users, Sessions, LineNums, Fds, Actors, Listen

\* The parts of the type invariant, with their record sets kept closed
LEMMA TypeParts ==
    TypeOK <=>
        /\ system_date \in Dates
        /\ written \in [Files -> 0 .. MaxLines]
        /\ main \in MainRec
        /\ thread_count \in Actors
        /\ thread \in [Sessions -> EntryType]
        /\ local \in [Sessions -> LocalRec]
        /\ remove \in [Actors -> RemoveRec]
        /\ response_user \in [Users -> UserRec]
        /\ conn \in [Fds -> ConnRec]
        /\ lapse \subseteq Sessions
BY DEF TypeOK, MainRec, LocalRec, RemoveRec, UserRec, ConnRec

LEMMA TypePartsNext ==
    TypeOK' <=>
        /\ system_date' \in Dates
        /\ written' \in [Files -> 0 .. MaxLines]
        /\ main' \in MainRec
        /\ thread_count' \in Actors
        /\ thread' \in [Sessions -> EntryType]
        /\ local' \in [Sessions -> LocalRec]
        /\ remove' \in [Actors -> RemoveRec]
        /\ response_user' \in [Users -> UserRec]
        /\ conn' \in [Fds -> ConnRec]
        /\ lapse' \subseteq Sessions
BY DEF TypeOK, MainRec, LocalRec, RemoveRec, UserRec, ConnRec

LEMMA LeastIn ==
    ASSUME NEW S, S \subseteq Nat, S # {}
    PROVE  Least(S) \in S
<1>1. \E x \in S : \A y \in S : x <= y
  BY LeastElement
<1> QED
  BY <1>1 DEF Least

LEMMA EntryFacts ==
    ASSUME NEW o \in {0} \cup Users
    PROVE  /\ Entry(o) \in EntryType
           /\ Entry(o).user_offset = o /\ ~Entry(o).thread_terminate
           /\ Entry(o).fp = {} /\ \A f \in Files : Entry(o).read[f] = 0
BY ConstantFacts DEF Entry, EntryType

LEMMA EntryTypeFacts ==
    ASSUME NEW e \in EntryType
    PROVE  /\ e.user_offset \in {0} \cup Users /\ e.listed \subseteq Files /\ e.fp \subseteq Files
           /\ e.read \in [Files -> 0 .. MaxLines]
BY DEF EntryType

\* thread_terminate is set,
LEMMA TellEntry ==
    ASSUME NEW e \in EntryType
    PROVE  LET r == [e EXCEPT !.thread_terminate = TRUE]
           IN  /\ r \in EntryType /\ r.thread_terminate = TRUE
               /\ r.user_offset = e.user_offset /\ r.fp = e.fp /\ r.read = e.read
BY DEF EntryType

\* a line is read.
LEMMA ReadEntry ==
    ASSUME NEW e \in EntryType, NEW f \in Files, NEW n \in 0 .. MaxLines
    PROVE  LET r == [e EXCEPT !.read[f] = n]
           IN  /\ r \in EntryType /\ r.thread_terminate = e.thread_terminate
               /\ r.user_offset = e.user_offset /\ r.fp = e.fp
               /\ \A g \in Files : r.read[g] = IF g = f THEN n ELSE e.read[g]
<1> DEFINE q == [e.read EXCEPT ![f] = n]
           r == [e EXCEPT !.read = q]
<1>1. q \in [Files -> 0 .. MaxLines] /\ \A g \in Files : q[g] = IF g = f THEN n ELSE e.read[g]
  BY DEF EntryType
<1> HIDE DEF q
<1>2. /\ r \in EntryType /\ r.thread_terminate = e.thread_terminate
      /\ r.user_offset = e.user_offset /\ r.fp = e.fp /\ r.read = q
  BY <1>1 DEF EntryType
<1>3. [e EXCEPT !.read[f] = n] = r
  BY DEF q
<1> QED
  BY <1>1, <1>2, <1>3

LEMMA LocalFacts ==
    ASSUME NEW l \in LocalRec
    PROVE  /\ l.pc \in {"none", "round", "done"} /\ l.user_offset \in {0} \cup Users
           /\ l.readfds \subseteq Files
BY DEF LocalRec

\* Other lines are selected.
LEMMA SelectLocal ==
    ASSUME NEW l \in LocalRec, NEW S \in SUBSET Files
    PROVE  LET r == [l EXCEPT !.readfds = S]
           IN  r \in LocalRec /\ r.pc = l.pc /\ r.user_offset = l.user_offset /\ r.readfds = S
BY DEF LocalRec

LEMMA NoThreadFacts ==
    LET r == [NoThread EXCEPT !.pc = "done"]
    IN  /\ NoThread \in LocalRec /\ NoThread.pc = "none"
        /\ r \in LocalRec /\ r.pc = "done" /\ r.readfds = {}
BY DEF NoThread, LocalRec

LEMMA RemoveFacts ==
    ASSUME NEW c \in RemoveRec
    PROVE  /\ c.pc \in {"idle", "find", "wait", "close", "clear"}
           /\ c.offset \in {0} \cup Users /\ c.i \in Actors
BY DEF RemoveRec

\* The caller of RemoveUser goes on.
LEMMA MoveRemove ==
    ASSUME NEW c \in RemoveRec, NEW p \in {"idle", "find", "wait", "close", "clear"}
    PROVE  LET r == [c EXCEPT !.pc = p]
           IN  r \in RemoveRec /\ r.pc = p /\ r.offset = c.offset /\ r.i = c.i
BY DEF RemoveRec

LEMMA NotCalledFacts ==
    /\ NotCalled \in RemoveRec /\ NotCalled.pc = "idle"
    /\ \A o \in Users : [pc |-> "find", offset |-> o, i |-> 0] \in RemoveRec
BY ConstantFacts DEF NotCalled, RemoveRec

LEMMA UserFacts ==
    /\ NoUser \in UserRec /\ NoUser.sockfd = 0
    /\ \A d \in Fds, l \in Logins : NewUser(d, l) \in UserRec
    /\ \A u \in UserRec : u.sockfd \in Fds /\ u.login \in Logins \cup {Nobody}
BY ConstantFacts DEF NoUser, NewUser, UserRec

LEMMA SocketFacts ==
    /\ Closed \in ConnRec /\ Closed.session = 0 /\ ~Closed.gone /\ Closed.got = <<>>
    /\ NoSocket \in ConnRec /\ NoSocket.session = -1 /\ ~NoSocket.gone /\ NoSocket.got = <<>>
    /\ \A s \in Sessions, l \in Logins :
          /\ Socket(s, l) \in ConnRec /\ Socket(s, l).session = s /\ Socket(s, l).client = l
          /\ ~Socket(s, l).gone /\ Socket(s, l).got = <<>>
BY ConstantFacts DEF Closed, NoSocket, Socket, ConnRec

LEMMA ConnFacts ==
    ASSUME NEW c \in ConnRec
    PROVE  /\ c.session \in {-1} \cup Actors /\ c.client \in Logins \cup {Nobody}
           /\ c.gone \in BOOLEAN /\ c.got \in Seq(Files \X LineNums)
BY DEF ConnRec

\* The service hangs up,
LEMMA HangUpConn ==
    ASSUME NEW c \in ConnRec
    PROVE  LET r == [c EXCEPT !.gone = TRUE]
           IN  /\ r \in ConnRec /\ r.session = c.session /\ r.client = c.client
               /\ r.gone = TRUE /\ r.got = c.got
BY DEF ConnRec

\* or receives a line.
LEMMA ReceiveConn ==
    ASSUME NEW c \in ConnRec, NEW x \in Files \X LineNums
    PROVE  LET r == [c EXCEPT !.got = Append(@, x)]
           IN  /\ r \in ConnRec /\ r.session = c.session /\ r.client = c.client
               /\ r.gone = c.gone /\ r.got = Append(c.got, x)
<1>1. Append(c.got, x) \in Seq(Files \X LineNums)
  BY DEF ConnRec
<1> QED
  BY <1>1 DEF ConnRec

LEMMA MainFacts ==
    ASSUME NEW m \in MainRec
    PROVE  m.pc \in {"down", "loop", "count"} /\ m.events \subseteq {Listen} \cup Fds
BY DEF MainRec

LEMMA MoveMain ==
    ASSUME NEW m \in MainRec, NEW p \in {"down", "loop", "count"}
    PROVE  LET r == [m EXCEPT !.pc = p]
           IN  r \in MainRec /\ r.pc = p /\ r.events = m.events
BY DEF MainRec

LEMMA EventsMain ==
    ASSUME NEW m \in MainRec, NEW E \in SUBSET ({Listen} \cup Fds)
    PROVE  LET r == [m EXCEPT !.events = E]
           IN  r \in MainRec /\ r.pc = m.pc /\ r.events = E
BY DEF MainRec
----------------------------------------------------------------------------
(* The start and the end of the process *)

\* What Init and Stop have in common
Fresh ==
    /\ main = [pc |-> "down", events |-> {}]
    /\ thread_count = 0
    /\ thread = [i \in Sessions |-> Entry(0)]
    /\ local = [i \in Sessions |-> NoThread]
    /\ remove = [a \in Actors |-> NotCalled]
    /\ response_user = [o \in Users |-> NoUser]
    /\ conn = [d \in Fds |-> IF d = 0 THEN NoSocket ELSE Closed]
    /\ lapse = {}

LEMMA FreshInv ==
    ASSUME Fresh, system_date \in Dates, written \in [Files -> 0 .. MaxLines]
    PROVE  IInv
<1> USE ConstantFacts, EntryFacts, NoThreadFacts, NotCalledFacts, UserFacts, SocketFacts
<1>1. /\ main \in MainRec /\ main.pc = "down" /\ main.events = {}
      /\ thread_count = 0 /\ lapse = {}
  BY DEF Fresh, MainRec
<1>2. /\ thread \in [Sessions -> EntryType] /\ local \in [Sessions -> LocalRec]
      /\ remove \in [Actors -> RemoveRec] /\ response_user \in [Users -> UserRec]
      /\ conn \in [Fds -> ConnRec]
  BY DEF Fresh
<1>3. /\ \A i \in Sessions : local[i].pc = "none" /\ thread[i].user_offset = 0 /\ thread[i].fp = {}
      /\ \A a \in Actors : remove[a].pc = "idle"
      /\ \A o \in Users : response_user[o].sockfd = 0
  BY DEF Fresh
<1>4. \A d \in Fds : /\ conn[d].session \in {-1, 0} /\ ~conn[d].gone /\ conn[d].got = <<>>
                     /\ d = 0 => conn[d].session = -1
  BY DEF Fresh
<1>5. TypeOK
  BY <1>1, <1>2, TypeParts
<1>6. BaseInv
  BY <1>1, <1>3 DEF BaseInv, SlotInHand, TableHasRoom, SelectedHasLine, Running, Readable
<1>7. -1 \notin Sessions
  OBVIOUS
<1>8. TableInv
  <2>1. OnlyMainRemoves /\ Created /\ SessionConn /\ EntryInUse /\ Waiting
    BY <1>1, <1>3 DEF OnlyMainRemoves, Created, SessionConn, EntryInUse, Waiting, Running
  <2>2. SlotConn /\ SlotsApart /\ SlotServed /\ LeavingSlot /\ Events
    BY <1>1, <1>3 DEF SlotConn, SlotsApart, SlotServed, LeavingSlot, Events
  <2>3. ConnSlot
    BY <1>4, <1>7 DEF ConnSlot
  <2> QED
    BY <2>1, <2>2, <2>3 DEF TableInv
<1>9. LinesInv
  BY <1>3, <1>4, <1>7 DEF LinesInv, SentOfRead, ReceivedInOrder, ReceivedAll, Running, InOrder
<1>10. WrittenInv
  BY <1>4 DEF WrittenInv, Within, WithoutGap
<1> QED
  BY <1>5, <1>6, <1>8, <1>9, <1>10 DEF IInv

LEMMA InitInv == Init => IInv
<1>1. Init => Fresh /\ system_date \in Dates /\ written \in [Files -> 0 .. MaxLines]
  BY ConstantFacts DEF Init, Fresh
<1> QED
  BY <1>1, FreshInv

LEMMA FreshInvNext ==
    (Fresh /\ system_date \in Dates /\ written \in [Files -> 0 .. MaxLines])' => IInv'
<1>1. Fresh /\ system_date \in Dates /\ written \in [Files -> 0 .. MaxLines] => IInv
  BY FreshInv
<1> QED
  BY <1>1, PTL

LEMMA StopInv ==
    ASSUME TypeOK, Stop
    PROVE  IInv'
<1>1. system_date' \in Dates /\ written' \in [Files -> 0 .. MaxLines]
  BY TypeParts DEF Stop, env
<1>2. Fresh'
  BY DEF Stop, Fresh
<1> QED
  BY <1>1, <1>2, FreshInvNext

----------------------------------------------------------------------------
(* RemoveUser, step by step *)

\* A descriptor is closed, or the caller has the slot of it in hand.
LEMMA CallFacts ==
    ASSUME TypeOK, NEW a \in Actors, NEW d \in Fds, CallRemoveUser(a, d)
    PROVE  /\ remove' \in [Actors -> RemoveRec] /\ conn' \in [Fds -> ConnRec]
           /\ \/ UsersOf(d) = {} /\ remove' = remove
              \/ /\ UsersOf(d) # {} /\ conn' = conn
                 /\ remove'[a].pc = "find" /\ remove'[a].offset \in UsersOf(d)
                 /\ \A b \in Actors \ {a} : remove'[b] = remove[b]
<1>1. remove \in [Actors -> RemoveRec] /\ conn \in [Fds -> ConnRec]
  BY TypeParts
<1>2. CASE UsersOf(d) = {}
  BY <1>1, <1>2, SocketFacts DEF CallRemoveUser
<1>3. CASE UsersOf(d) # {}
  <2> DEFINE o == Least(UsersOf(d))
             r == [pc |-> "find", offset |-> o, i |-> 0]
  <2>1. o \in UsersOf(d) /\ o \in Users
    <3>1. UsersOf(d) \subseteq Users
      BY DEF UsersOf
    <3>2. UsersOf(d) \subseteq Nat
      BY <3>1, ConstantFacts
    <3> QED
      BY <1>3, <3>1, <3>2, LeastIn
  <2>2. remove' = [remove EXCEPT ![a] = r] /\ conn' = conn
    BY <1>3 DEF CallRemoveUser
  <2> HIDE DEF o
  <2>3. r \in RemoveRec /\ r.pc = "find" /\ r.offset = o
    BY <2>1, NotCalledFacts
  <2> HIDE DEF r
  <2>4. /\ remove' \in [Actors -> RemoveRec] /\ remove'[a] = r
        /\ \A b \in Actors \ {a} : remove'[b] = remove[b]
    BY <1>1, <2>2, <2>3
  <2> QED
    BY <1>1, <1>3, <2>1, <2>2, <2>3, <2>4
<1> QED
  BY <1>2, <1>3

\* The thread that is joined next is a counted one of the slot.
LEMMA NextThread ==
    ASSUME TypeOK, NEW o, ThreadsOf(o) # {}
    PROVE  LET i == Least(ThreadsOf(o))
           IN  i \in Sessions /\ i \in 1 .. thread_count /\ thread[i].user_offset = o
<1>1. thread_count \in Nat /\ thread_count <= MaxSessions /\ MaxSessions \in Nat
  BY TypeParts, ConstantFacts DEF Actors
<1>2. ThreadsOf(o) \subseteq Nat
  BY <1>1 DEF ThreadsOf
<1>3. Least(ThreadsOf(o)) \in ThreadsOf(o)
  BY <1>2, LeastIn
<1> QED
  BY <1>1, <1>3 DEF ThreadsOf, Sessions

LEMMA TerminateFacts ==
    ASSUME TypeOK, NEW a \in Actors, Terminate(a)
    PROVE  LET i == Least(ThreadsOf(remove[a].offset))
           IN  /\ remove[a].pc = "find"
               /\ i \in Sessions /\ i \in 1 .. thread_count
               /\ thread[i].user_offset = remove[a].offset
               /\ thread' \in [Sessions -> EntryType] /\ remove' \in [Actors -> RemoveRec]
               /\ \A k \in Sessions \ {i} : thread'[k] = thread[k]
               /\ UNCHANGED <<system_date, written, main, thread_count, local, response_user, conn,
                              lapse>>
               /\ \/ JoinRefused(a, i) /\ thread'[i] = Entry(0) /\ remove' = remove
                  \/ /\ ~JoinRefused(a, i)
                     /\ thread'[i].thread_terminate = TRUE
                     /\ thread'[i].user_offset = thread[i].user_offset
                     /\ thread'[i].fp = thread[i].fp /\ thread'[i].read = thread[i].read
                     /\ remove'[a].pc = "wait" /\ remove'[a].i = i
                     /\ remove'[a].offset = remove[a].offset
                     /\ \A b \in Actors \ {a} : remove'[b] = remove[b]
<1> DEFINE i == Least(ThreadsOf(remove[a].offset))
<1>1. thread \in [Sessions -> EntryType] /\ remove \in [Actors -> RemoveRec]
  BY TypeParts
<1>2. /\ remove[a].pc = "find" /\ ThreadsOf(remove[a].offset) # {}
      /\ UNCHANGED <<system_date, written, main, thread_count, local, response_user, conn, lapse>>
      /\ IF JoinRefused(a, i)
         THEN thread' = [thread EXCEPT ![i] = Entry(0)] /\ UNCHANGED remove
         ELSE /\ thread' = [thread EXCEPT ![i].thread_terminate = TRUE]
              /\ remove' = [remove EXCEPT ![a].pc = "wait", ![a].i = i]
  BY DEF Terminate, env
<1>3. i \in Sessions /\ i \in 1 .. thread_count /\ thread[i].user_offset = remove[a].offset
  BY <1>2, NextThread
<1>4. i \in Actors
  BY <1>3, ConstantFacts
<1> HIDE DEF i
<1>5. CASE JoinRefused(a, i)
  <2>1. Entry(0) \in EntryType
    BY EntryFacts
  <2>2. thread' = [thread EXCEPT ![i] = Entry(0)] /\ remove' = remove
    BY <1>2, <1>5
  <2>3. thread' \in [Sessions -> EntryType] /\ thread'[i] = Entry(0)
        /\ \A k \in Sessions \ {i} : thread'[k] = thread[k]
    BY <1>1, <1>3, <2>1, <2>2
  <2> QED
    BY <1>1, <1>2, <1>3, <1>5, <2>2, <2>3 DEF i
<1>6. CASE ~JoinRefused(a, i)
  <2> DEFINE r == [thread[i] EXCEPT !.thread_terminate = TRUE]
             c == [remove[a] EXCEPT !.pc = "wait", !.i = i]
  <2>1. thread' = [thread EXCEPT ![i] = r] /\ remove' = [remove EXCEPT ![a] = c]
    BY <1>2, <1>6
  <2>2. /\ r \in EntryType /\ r.thread_terminate = TRUE
        /\ r.user_offset = thread[i].user_offset /\ r.fp = thread[i].fp /\ r.read = thread[i].read
    BY <1>1, <1>3, TellEntry
  <2>3. c \in RemoveRec /\ c.pc = "wait" /\ c.offset = remove[a].offset /\ c.i = i
    <3>1. remove[a] \in RemoveRec
      BY <1>1
    <3> QED
      BY <3>1, <1>4 DEF RemoveRec
  <2> HIDE DEF r, c
  <2>4. /\ thread' \in [Sessions -> EntryType] /\ thread'[i] = r
        /\ \A k \in Sessions \ {i} : thread'[k] = thread[k]
        /\ remove' \in [Actors -> RemoveRec] /\ remove'[a] = c
        /\ \A b \in Actors \ {a} : remove'[b] = remove[b]
    BY <1>1, <1>3, <2>1, <2>2, <2>3
  <2> QED
    BY <1>2, <1>3, <1>6, <2>2, <2>3, <2>4 DEF i
<1> QED
  BY <1>5, <1>6

\* The rest of RemoveUser
LEMMA JoinFacts ==
    ASSUME TypeOK, NEW a \in Actors, Join(a)
    PROVE  LET i == remove[a].i
           IN  /\ remove[a].pc = "wait" /\ local[i].pc = "done"
               /\ thread' \in [Sessions -> EntryType] /\ remove' \in [Actors -> RemoveRec]
               /\ i \in Sessions => thread'[i] = Entry(0)
               /\ \A k \in Sessions \ {i} : thread'[k] = thread[k]
               /\ remove'[a].pc = "find" /\ remove'[a].offset = remove[a].offset
               /\ \A b \in Actors \ {a} : remove'[b] = remove[b]
               /\ UNCHANGED <<system_date, written, main, thread_count, local, response_user, conn,
                              lapse>>
<1> DEFINE c == [remove[a] EXCEPT !.pc = "find", !.i = 0]
<1>1. thread \in [Sessions -> EntryType] /\ remove \in [Actors -> RemoveRec]
  BY TypeParts
<1>2. /\ remove[a].pc = "wait" /\ local[remove[a].i].pc = "done"
      /\ thread' = [thread EXCEPT ![remove[a].i] = Entry(0)] /\ remove' = [remove EXCEPT ![a] = c]
      /\ UNCHANGED <<system_date, written, main, thread_count, local, response_user, conn, lapse>>
  BY DEF Join, env
<1>3. c \in RemoveRec /\ c.pc = "find" /\ c.offset = remove[a].offset
  <2>1. remove[a] \in RemoveRec /\ 0 \in Actors
    BY <1>1, ConstantFacts
  <2> QED
    BY <2>1 DEF RemoveRec
<1> HIDE DEF c
<1>4. Entry(0) \in EntryType
  BY EntryFacts
<1>5. /\ thread' \in [Sessions -> EntryType]
      /\ remove[a].i \in Sessions => thread'[remove[a].i] = Entry(0)
      /\ \A k \in Sessions \ {remove[a].i} : thread'[k] = thread[k]
  BY <1>1, <1>2, <1>4
<1>6. /\ remove' \in [Actors -> RemoveRec] /\ remove'[a] = c
      /\ \A b \in Actors \ {a} : remove'[b] = remove[b]
  BY <1>1, <1>2, <1>3
<1> QED
  BY <1>2, <1>3, <1>5, <1>6

LEMMA CloseFacts ==
    ASSUME TypeOK, BaseInv, NEW a \in Actors, CloseUser(a)
    PROVE  LET d == response_user[remove[a].offset].sockfd
           IN  /\ \/ remove[a].pc = "close"
                  \/ a = 0 /\ remove[a].pc = "find" /\ ThreadsOf(remove[a].offset) = {}
               /\ remove[a].offset \in Users /\ d \in Fds
               /\ conn' \in [Fds -> ConnRec] /\ remove' \in [Actors -> RemoveRec]
               /\ conn'[d] = Closed /\ \A e \in Fds \ {d} : conn'[e] = conn[e]
               /\ remove'[a].pc = "clear" /\ remove'[a].offset = remove[a].offset
               /\ \A b \in Actors \ {a} : remove'[b] = remove[b]
               /\ UNCHANGED <<system_date, written, main, thread_count, thread, local,
                              response_user, lapse>>
<1> DEFINE d == response_user[remove[a].offset].sockfd
           c == [remove[a] EXCEPT !.pc = "clear"]
<1>1. /\ remove \in [Actors -> RemoveRec] /\ conn \in [Fds -> ConnRec]
      /\ response_user \in [Users -> UserRec]
  BY TypeParts
<1>2. /\ \/ remove[a].pc = "close"
         \/ a = 0 /\ remove[a].pc = "find" /\ ThreadsOf(remove[a].offset) = {}
      /\ conn' = [conn EXCEPT ![d] = Closed] /\ remove' = [remove EXCEPT ![a] = c]
      /\ UNCHANGED <<system_date, written, main, thread_count, thread, local, response_user, lapse>>
  BY DEF CloseUser, env, table
<1>3. remove[a].offset \in Users
  BY <1>2 DEF BaseInv, SlotInHand
<1>4. d \in Fds
  BY <1>1, <1>3, UserFacts
<1>5. c \in RemoveRec /\ c.pc = "clear" /\ c.offset = remove[a].offset
  BY <1>1, MoveRemove
<1> HIDE DEF c, d
<1>6. /\ remove' \in [Actors -> RemoveRec] /\ remove'[a] = c
      /\ \A b \in Actors \ {a} : remove'[b] = remove[b]
  BY <1>1, <1>2, <1>5
<1>7. conn' \in [Fds -> ConnRec] /\ conn'[d] = Closed /\ \A e \in Fds \ {d} : conn'[e] = conn[e]
  BY <1>1, <1>2, <1>4, SocketFacts
<1> QED
  BY <1>2, <1>3, <1>4, <1>5, <1>6, <1>7 DEF d

LEMMA ClearFacts ==
    ASSUME TypeOK, BaseInv, NEW a \in Actors, ClearUser(a)
    PROVE  /\ remove[a].pc = "clear" /\ remove[a].offset \in Users
           /\ response_user' \in [Users -> UserRec] /\ remove' \in [Actors -> RemoveRec]
           /\ response_user'[remove[a].offset] = NoUser
           /\ \A o \in Users \ {remove[a].offset} : response_user'[o] = response_user[o]
           /\ remove'[a] = NotCalled /\ \A b \in Actors \ {a} : remove'[b] = remove[b]
           /\ UNCHANGED <<system_date, written, main, thread_count, thread, local, conn, lapse>>
<1>1. remove \in [Actors -> RemoveRec] /\ response_user \in [Users -> UserRec]
  BY TypeParts
<1>2. /\ remove[a].pc = "clear"
      /\ response_user' = [response_user EXCEPT ![remove[a].offset] = NoUser]
      /\ remove' = [remove EXCEPT ![a] = NotCalled]
      /\ UNCHANGED <<system_date, written, main, thread_count, thread, local, conn, lapse>>
  BY DEF ClearUser, env, table
<1>3. remove[a].offset \in Users
  BY <1>2 DEF BaseInv, SlotInHand
<1> QED
  BY <1>1, <1>2, <1>3, UserFacts, NotCalledFacts

LEMMA LeaveFacts ==
    ASSUME TypeOK, NEW a \in Actors, LeaveLoop(a)
    PROVE  /\ a # 0 /\ remove[a].pc = "find"
           /\ remove' \in [Actors -> RemoveRec]
           /\ remove'[a].pc = "close" /\ remove'[a].offset = remove[a].offset
           /\ \A b \in Actors \ {a} : remove'[b] = remove[b]
           /\ UNCHANGED <<system_date, written, main, thread_count, thread, local, response_user,
                          conn, lapse>>
<1> DEFINE c == [remove[a] EXCEPT !.pc = "close"]
<1>1. remove \in [Actors -> RemoveRec]
  BY TypeParts
<1>2. /\ a # 0 /\ remove[a].pc = "find" /\ remove' = [remove EXCEPT ![a] = c]
      /\ UNCHANGED <<system_date, written, main, thread_count, thread, local, response_user, conn,
                     lapse>>
  BY DEF LeaveLoop, env, table
<1>3. c \in RemoveRec /\ c.pc = "close" /\ c.offset = remove[a].offset
  BY <1>1, MoveRemove
<1> HIDE DEF c
<1> QED
  BY <1>1, <1>2, <1>3
----------------------------------------------------------------------------
(* The other operations: what they change, and how *)

LEMMA HangUpFacts ==
    ASSUME TypeOK, NEW d \in Fds, HangUp(d)
    PROVE  /\ conn[d].session \in Sessions /\ ~conn[d].gone
           /\ conn' \in [Fds -> ConnRec]
           /\ conn'[d].session = conn[d].session /\ conn'[d].client = conn[d].client
           /\ conn'[d].gone = TRUE /\ conn'[d].got = conn[d].got
           /\ \A e \in Fds \ {d} : conn'[e] = conn[e]
           /\ UNCHANGED <<system_date, written, main, thread_count, thread, local, remove,
                          response_user, lapse>>
<1> DEFINE c == [conn[d] EXCEPT !.gone = TRUE]
<1>1. conn \in [Fds -> ConnRec]
  BY TypeParts
<1>2. /\ conn[d].session \in Sessions /\ ~conn[d].gone /\ conn' = [conn EXCEPT ![d] = c]
      /\ UNCHANGED <<system_date, written, main, thread_count, thread, local, remove,
                     response_user, lapse>>
  BY DEF HangUp, env, table
<1>3. /\ c \in ConnRec /\ c.session = conn[d].session /\ c.client = conn[d].client
      /\ c.gone = TRUE /\ c.got = conn[d].got
  BY <1>1, HangUpConn
<1> HIDE DEF c
<1> QED
  BY <1>1, <1>2, <1>3

LEMMA PollFacts ==
    ASSUME TypeOK, Poll
    PROVE  /\ main.pc = "loop" /\ remove[0].pc = "idle"
           /\ main' \in MainRec /\ main'.pc = "loop"
           /\ \A d \in main'.events \ {Listen} : conn[d].gone
           /\ Listen \in main'.events => thread_count < MaxSessions
           /\ UNCHANGED <<system_date, written, thread_count, thread, local, remove, response_user,
                          conn, lapse>>
<1>1. main \in MainRec /\ main.pc = "loop" /\ remove[0].pc = "idle"
  BY TypeParts DEF Poll, InLoop
<1>2. PICK new \in SUBSET {Listen} :
         /\ new = {} \/ thread_count < MaxSessions
         /\ main' = [main EXCEPT !.events = {d \in Fds : conn[d].gone} \cup new]
  BY DEF Poll
<1> DEFINE E == {d \in Fds : conn[d].gone} \cup new
<1>3. E \in SUBSET ({Listen} \cup Fds)
  OBVIOUS
<1>4. /\ \A d \in E \ {Listen} : conn[d].gone
      /\ Listen \in E => thread_count < MaxSessions
  BY <1>2, ConstantFacts
<1>5. main' = [main EXCEPT !.events = E]
  BY <1>2
<1> HIDE DEF E
<1>6. main' \in MainRec /\ main'.pc = "loop" /\ main'.events = E
  BY <1>1, <1>3, <1>5, EventsMain
<1>7. UNCHANGED <<system_date, written, thread_count, thread, local, remove, response_user, conn,
                  lapse>>
  BY DEF Poll, env, table
<1> QED
  BY <1>1, <1>4, <1>6, <1>7

LEMMA RemoveClientFacts ==
    ASSUME TypeOK, NEW d \in Fds, RemoveClient(d)
    PROVE  /\ main.pc = "loop" /\ remove[0].pc = "idle" /\ d \in main.events \ {Listen}
           /\ main' \in MainRec /\ main'.pc = "loop" /\ main'.events = main.events \ {d}
           /\ CallRemoveUser(0, d)
           /\ UNCHANGED <<system_date, written, thread_count, thread, local, response_user, lapse>>
<1> DEFINE E == main.events \ {d}
<1>1. /\ main \in MainRec /\ main.pc = "loop" /\ remove[0].pc = "idle"
      /\ main' = [main EXCEPT !.events = E]
      /\ d \in main.events \ {Listen} /\ CallRemoveUser(0, d)
      /\ UNCHANGED <<system_date, written, thread_count, thread, local, response_user, lapse>>
  BY TypeParts DEF RemoveClient, InLoop, env, table
<1>2. E \in SUBSET ({Listen} \cup Fds)
  BY <1>1, MainFacts
<1> HIDE DEF E
<1>3. main' \in MainRec /\ main'.pc = "loop" /\ main'.events = E
  BY <1>1, <1>2, EventsMain
<1> QED
  BY <1>1, <1>3 DEF E

LEMMA RefuseFacts ==
    ASSUME TypeOK, RefuseUser
    PROVE  /\ main.pc = "loop" /\ remove[0].pc = "idle"
           /\ main' \in MainRec /\ main'.pc = "loop" /\ main'.events = main.events \ {Listen}
           /\ UNCHANGED <<system_date, written, thread_count, thread, local, remove, response_user,
                          conn, lapse>>
<1> DEFINE E == main.events \ {Listen}
<1>1. /\ main \in MainRec /\ main.pc = "loop" /\ remove[0].pc = "idle"
      /\ main' = [main EXCEPT !.events = E]
      /\ UNCHANGED <<system_date, written, thread_count, thread, local, remove, response_user,
                     conn, lapse>>
  BY TypeParts DEF RefuseUser, InLoop, env, table
<1>2. E \in SUBSET ({Listen} \cup Fds)
  BY <1>1, MainFacts
<1> HIDE DEF E
<1>3. main' \in MainRec /\ main'.pc = "loop" /\ main'.events = E
  BY <1>1, <1>2, EventsMain
<1> QED
  BY <1>1, <1>3 DEF E

LEMMA CountFacts ==
    ASSUME TypeOK, BaseInv, CountThread
    PROVE  /\ main.pc = "count" /\ Listen \notin main.events
           /\ main' \in MainRec /\ main'.pc = "loop" /\ main'.events = main.events
           /\ NewThread \in Sessions /\ thread_count' = NewThread /\ thread_count' \in Actors
           /\ UNCHANGED <<system_date, written, thread, local, remove, response_user, conn, lapse>>
<1>1. /\ main \in MainRec /\ main.pc = "count" /\ main' = [main EXCEPT !.pc = "loop"]
      /\ thread_count' = NewThread
      /\ UNCHANGED <<system_date, written, thread, local, remove, response_user, conn, lapse>>
  BY TypeParts DEF CountThread, env
<1>2. Listen \notin main.events /\ thread_count < MaxSessions
  BY <1>1 DEF BaseInv, TableHasRoom
<1>3. main' \in MainRec /\ main'.pc = "loop" /\ main'.events = main.events
  BY <1>1, MoveMain
<1>4. NewThread \in Sessions
  BY <1>2, TypeParts, ConstantFacts DEF NewThread, Sessions, Actors
<1> QED
  BY <1>1, <1>2, <1>3, <1>4, ConstantFacts

LEMMA AcceptFacts ==
    ASSUME TypeOK, BaseInv, NEW l \in Logins, AcceptUser(l)
    PROVE  /\ main.pc = "loop" /\ remove[0].pc = "idle" /\ Listen \in main.events
           /\ main' \in MainRec /\ main'.events = main.events \ {Listen}
           /\ NewThread \in Sessions
           /\ \E d \in Fds : \E o \in Users :
                 /\ conn[d].session = 0 /\ response_user[o].sockfd = 0
                 /\ response_user' \in [Users -> UserRec] /\ response_user'[o] = NewUser(d, l)
                 /\ \A p \in Users \ {o} : response_user'[p] = response_user[p]
                 /\ conn' \in [Fds -> ConnRec] /\ conn'[d] = Socket(NewThread, l)
                 /\ \A e \in Fds \ {d} : conn'[e] = conn[e]
                 /\ thread' \in [Sessions -> EntryType] /\ thread'[NewThread] = Entry(o)
                 /\ \A i \in Sessions \ {NewThread} : thread'[i] = thread[i]
                 /\ \/ /\ local' \in [Sessions -> LocalRec]
                       /\ local'[NewThread].pc = "round" /\ local'[NewThread].user_offset = o
                       /\ local'[NewThread].readfds = {}
                       /\ \A i \in Sessions \ {NewThread} : local'[i] = local[i]
                       /\ main'.pc = "count" /\ remove' = remove
                    \/ /\ remove' \in [Actors -> RemoveRec]
                       /\ remove'[0].pc = "find" /\ remove'[0].offset = o
                       /\ \A b \in Sessions : remove'[b] = remove[b]
                       /\ main'.pc = "loop" /\ local' = local
           /\ UNCHANGED <<system_date, written, thread_count, lapse>>
<1> DEFINE d == Least(FreeFds)
           o == Least(UsersOf(0))
           E == main.events \ {Listen}
           c == [pc |-> "round", user_offset |-> o, readfds |-> {}]
           r == [pc |-> "find", offset |-> o, i |-> 0]
<1>1. /\ main \in MainRec /\ thread \in [Sessions -> EntryType] /\ local \in [Sessions -> LocalRec]
      /\ remove \in [Actors -> RemoveRec] /\ response_user \in [Users -> UserRec]
      /\ conn \in [Fds -> ConnRec] /\ thread_count \in Actors
  BY TypeParts
<1>2. /\ main.pc = "loop" /\ remove[0].pc = "idle" /\ Listen \in main.events
      /\ FreeFds # {} /\ UsersOf(0) # {}
      /\ response_user' = [response_user EXCEPT ![o] = NewUser(d, l)]
      /\ conn' = [conn EXCEPT ![d] = Socket(NewThread, l)]
      /\ thread' = [thread EXCEPT ![NewThread] = Entry(o)]
      /\ \/ /\ local' = [local EXCEPT ![NewThread] = c]
            /\ main' = [pc |-> "count", events |-> E]
            /\ remove' = remove
         \/ /\ main' = [main EXCEPT !.events = E]
            /\ remove' = [remove EXCEPT ![0] = r]
            /\ local' = local
      /\ UNCHANGED <<system_date, written, thread_count, lapse>>
  BY DEF AcceptUser, InLoop, env
<1>3. d \in FreeFds /\ o \in UsersOf(0)
  <2>1. FreeFds \subseteq Nat /\ UsersOf(0) \subseteq Nat
    BY ConstantFacts DEF FreeFds, UsersOf
  <2> QED
    BY <1>2, <2>1, LeastIn
<1>4. d \in Fds /\ conn[d].session = 0 /\ o \in Users /\ response_user[o].sockfd = 0
  BY <1>3 DEF FreeFds, UsersOf
<1>5. NewThread \in Sessions
  <2>1. thread_count < MaxSessions
    BY <1>2 DEF BaseInv, TableHasRoom
  <2> QED
    BY <1>1, <2>1, ConstantFacts DEF NewThread, Sessions, Actors
<1>6. E \in SUBSET ({Listen} \cup Fds)
  BY <1>1, MainFacts
<1>7. Entry(o) \in EntryType /\ NewUser(d, l) \in UserRec /\ Socket(NewThread, l) \in ConnRec
  BY <1>4, <1>5, EntryFacts, UserFacts, SocketFacts
<1>8. c \in LocalRec /\ c.pc = "round" /\ c.user_offset = o /\ c.readfds = {}
  BY <1>4 DEF LocalRec
<1>9. r \in RemoveRec /\ r.pc = "find" /\ r.offset = o /\ 0 \in Actors /\ 0 \notin Sessions
      /\ Sessions \subseteq Actors
  BY <1>4, NotCalledFacts, ConstantFacts
<1>10. [pc |-> "count", events |-> E] \in MainRec
  BY <1>6 DEF MainRec
<1>11. /\ [main EXCEPT !.events = E] \in MainRec /\ [main EXCEPT !.events = E].pc = "loop"
       /\ [main EXCEPT !.events = E].events = E
  BY <1>1, <1>2, <1>6, EventsMain
<1> HIDE DEF d, o, E, c, r
<1>12. /\ response_user' \in [Users -> UserRec] /\ response_user'[o] = NewUser(d, l)
       /\ \A p \in Users \ {o} : response_user'[p] = response_user[p]
       /\ conn' \in [Fds -> ConnRec] /\ conn'[d] = Socket(NewThread, l)
       /\ \A e \in Fds \ {d} : conn'[e] = conn[e]
  BY <1>1, <1>2, <1>4, <1>7
<1>13. /\ thread' \in [Sessions -> EntryType] /\ thread'[NewThread] = Entry(o)
       /\ \A i \in Sessions \ {NewThread} : thread'[i] = thread[i]
  BY <1>1, <1>2, <1>5, <1>7
<1>14. CASE local' = [local EXCEPT ![NewThread] = c] /\ main' = [pc |-> "count", events |-> E]
            /\ remove' = remove
  <2>1. /\ local' \in [Sessions -> LocalRec] /\ local'[NewThread] = c
        /\ \A i \in Sessions \ {NewThread} : local'[i] = local[i]
    BY <1>1, <1>5, <1>8, <1>14
  <2>2. main' \in MainRec /\ main'.pc = "count" /\ main'.events = E
    BY <1>10, <1>14
  <2> QED
    BY <1>2, <1>4, <1>5, <1>8, <1>12, <1>13, <1>14, <2>1, <2>2 DEF E
<1>15. CASE main' = [main EXCEPT !.events = E] /\ remove' = [remove EXCEPT ![0] = r]
            /\ local' = local
  <2>1. /\ remove' \in [Actors -> RemoveRec] /\ remove'[0] = r
        /\ \A b \in Sessions : remove'[b] = remove[b]
    BY <1>1, <1>9, <1>15
  <2>2. main' \in MainRec /\ main'.pc = "loop" /\ main'.events = E
    BY <1>11, <1>15
  <2> QED
    BY <1>2, <1>4, <1>5, <1>9, <1>12, <1>13, <1>15, <2>1, <2>2 DEF E
<1> QED
  BY <1>2, <1>14, <1>15

LEMMA BeginFacts ==
    ASSUME TypeOK, NEW i \in Sessions, BeginRound(i)
    PROVE  /\ local[i].pc = "round" /\ ~thread[i].thread_terminate
           /\ thread' \in [Sessions -> EntryType] /\ local' \in [Sessions -> LocalRec]
           /\ \A k \in Sessions \ {i} : thread'[k] = thread[k] /\ local'[k] = local[k]
           /\ thread'[i].thread_terminate = thread[i].thread_terminate
           /\ thread'[i].user_offset = thread[i].user_offset
           /\ thread'[i].read = thread[i].read
           /\ \A f \in thread'[i].fp : f \in thread[i].fp \/ GroupMatches(User(i).login, f)
           /\ local'[i].pc = "round" /\ local'[i].user_offset = local[i].user_offset
           /\ \A f \in local'[i].readfds : thread[i].read[f] < written[f]
           /\ UNCHANGED <<system_date, written, main, thread_count, remove, response_user, conn,
                          lapse>>
<1>1. thread \in [Sessions -> EntryType] /\ local \in [Sessions -> LocalRec]
  BY TypeParts
<1>2. /\ local[i].pc = "round" /\ ~thread[i].thread_terminate
      /\ UNCHANGED <<system_date, written, main, thread_count, remove, response_user, conn, lapse>>
  BY DEF BeginRound, InThread, env
<1>3. PICK opened \in SUBSET NewFiles(i), closed \in SUBSET OldFiles(i) :
         LET fp == (thread[i].fp \ closed) \cup opened
         IN  /\ thread' = [thread EXCEPT ![i].listed = @ \cup NewFiles(i),
                                         ![i].fp = fp,
                                         ![i].initialized = TRUE]
             /\ local' = [local EXCEPT ![i].readfds = {f \in fp : thread[i].read[f] < written[f]}]
  BY DEF BeginRound
<1> DEFINE L == thread[i].listed \cup NewFiles(i)
           P == (thread[i].fp \ closed) \cup opened
           S == {f \in P : thread[i].read[f] < written[f]}
           e == [thread[i] EXCEPT !.listed = L, !.fp = P, !.initialized = TRUE]
           c == [local[i] EXCEPT !.readfds = S]
<1>4. thread' = [thread EXCEPT ![i] = e] /\ local' = [local EXCEPT ![i] = c]
  BY <1>3
<1>5. thread[i].listed \subseteq Files /\ thread[i].fp \subseteq Files
  BY <1>1, EntryTypeFacts
<1>6. \A f \in opened : f \in Files /\ GroupMatches(User(i).login, f)
  BY DEF NewFiles
<1>7. L \in SUBSET Files /\ P \in SUBSET Files /\ S \in SUBSET Files
  BY <1>5, <1>6 DEF NewFiles
<1>8. /\ \A f \in P : f \in thread[i].fp \/ GroupMatches(User(i).login, f)
      /\ \A f \in S : thread[i].read[f] < written[f]
  BY <1>6
<1> HIDE DEF L, P, S
<1>9. /\ e \in EntryType /\ e.thread_terminate = thread[i].thread_terminate
      /\ e.user_offset = thread[i].user_offset /\ e.fp = P /\ e.read = thread[i].read
  <2>1. thread[i] \in EntryType
    BY <1>1
  <2> QED
    BY <1>7, <2>1 DEF EntryType
<1>10. /\ c \in LocalRec /\ c.pc = local[i].pc /\ c.user_offset = local[i].user_offset
       /\ c.readfds = S
  BY <1>1, <1>7, SelectLocal
<1> HIDE DEF e, c
<1>11. /\ thread' \in [Sessions -> EntryType] /\ local' \in [Sessions -> LocalRec]
       /\ \A k \in Sessions \ {i} : thread'[k] = thread[k] /\ local'[k] = local[k]
       /\ thread'[i] = e /\ local'[i] = c
  BY <1>1, <1>4, <1>9, <1>10
<1> QED
  BY <1>2, <1>8, <1>9, <1>10, <1>11

LEMMA EndFacts ==
    ASSUME TypeOK, NEW i \in Sessions, EndThread(i)
    PROVE  /\ local[i].pc = "round" /\ thread[i].thread_terminate
           /\ local' \in [Sessions -> LocalRec]
           /\ local'[i].pc = "done" /\ local'[i].readfds = {}
           /\ \A k \in Sessions \ {i} : local'[k] = local[k]
           /\ UNCHANGED <<system_date, written, main, thread_count, thread, remove, response_user,
                          conn, lapse>>
<1> DEFINE c == [NoThread EXCEPT !.pc = "done"]
<1>1. local \in [Sessions -> LocalRec]
  BY TypeParts
<1>2. /\ local[i].pc = "round" /\ thread[i].thread_terminate /\ local' = [local EXCEPT ![i] = c]
      /\ UNCHANGED <<system_date, written, main, thread_count, thread, remove, response_user,
                     conn, lapse>>
  BY DEF EndThread, InThread, env, table
<1>3. c \in LocalRec /\ c.pc = "done" /\ c.readfds = {}
  BY NoThreadFacts
<1> HIDE DEF c
<1> QED
  BY <1>1, <1>2, <1>3

LEMMA ReadFacts ==
    ASSUME TypeOK, BaseInv, NEW i \in Sessions, NEW f \in Files, ReadLine(i, f)
    PROVE  /\ local[i].pc = "round" /\ remove[i].pc = "idle" /\ f \in thread[i].fp
           /\ NextLine(i, f) \in LineNums /\ thread[i].read[f] \in Nat
           /\ User(i).sockfd \in Fds
           /\ thread' \in [Sessions -> EntryType] /\ local' \in [Sessions -> LocalRec]
           /\ \A k \in Sessions \ {i} : thread'[k] = thread[k] /\ local'[k] = local[k]
           /\ thread'[i].thread_terminate = thread[i].thread_terminate
           /\ thread'[i].user_offset = thread[i].user_offset
           /\ thread'[i].fp = thread[i].fp
           /\ \A g \in Files :
                 thread'[i].read[g] = IF g = f THEN NextLine(i, f) ELSE thread[i].read[g]
           /\ local'[i].pc = "round" /\ local'[i].user_offset = local[i].user_offset
           /\ local'[i].readfds = local[i].readfds \ {f}
           /\ UNCHANGED <<system_date, written, main, thread_count, response_user>>
<1> DEFINE n == NextLine(i, f)
           S == local[i].readfds \ {f}
           e == [thread[i] EXCEPT !.read[f] = n]
           c == [local[i] EXCEPT !.readfds = S]
<1>1. /\ thread \in [Sessions -> EntryType] /\ local \in [Sessions -> LocalRec]
      /\ response_user \in [Users -> UserRec] /\ written \in [Files -> 0 .. MaxLines]
  BY TypeParts
<1>2. /\ local[i].pc = "round" /\ remove[i].pc = "idle" /\ f \in Readable(i)
      /\ thread' = [thread EXCEPT ![i] = e] /\ local' = [local EXCEPT ![i] = c]
      /\ UNCHANGED <<system_date, written, main, thread_count, response_user>>
  BY DEF ReadLine, InThread, env
<1>3. thread[i].read \in [Files -> 0 .. MaxLines]
  BY <1>1, EntryTypeFacts
<1>4. thread[i].read[f] < written[f]
  BY <1>2 DEF BaseInv, SelectedHasLine
<1>5. n \in LineNums /\ n \in 0 .. MaxLines /\ thread[i].read[f] \in Nat
  <2>1. thread[i].read[f] \in 0 .. MaxLines /\ written[f] \in 0 .. MaxLines
    BY <1>1, <1>3
  <2> QED
    BY <1>4, <2>1, ConstantFacts DEF NextLine, LineNums
<1>6. User(i).sockfd \in Fds
  BY <1>1, <1>2, UserFacts DEF BaseInv, SlotInHand, Running, User
<1>7. S \in SUBSET Files
  BY <1>1, LocalFacts
<1> HIDE DEF n, S
<1>8. /\ e \in EntryType /\ e.thread_terminate = thread[i].thread_terminate
      /\ e.user_offset = thread[i].user_offset /\ e.fp = thread[i].fp
      /\ \A g \in Files : e.read[g] = IF g = f THEN n ELSE thread[i].read[g]
  BY <1>1, <1>5, ReadEntry
<1>9. /\ c \in LocalRec /\ c.pc = local[i].pc /\ c.user_offset = local[i].user_offset
      /\ c.readfds = S
  BY <1>1, <1>7, SelectLocal
<1> HIDE DEF e, c
<1>10. /\ thread' \in [Sessions -> EntryType] /\ local' \in [Sessions -> LocalRec]
       /\ \A k \in Sessions \ {i} : thread'[k] = thread[k] /\ local'[k] = local[k]
       /\ thread'[i] = e /\ local'[i] = c
  BY <1>1, <1>2, <1>8, <1>9
<1>11. f \in thread[i].fp
  BY <1>2 DEF Readable
<1> QED
  BY <1>2, <1>5, <1>6, <1>8, <1>9, <1>10, <1>11 DEF n, S

LEMMA SendFacts ==
    ASSUME TypeOK, BaseInv, NEW i \in Sessions, NEW f \in Files, SendLine(i, f)
    PROVE  LET d == User(i).sockfd
           IN  /\ ReadLine(i, f) /\ d \in Fds /\ conn[d].session \in Sessions
               /\ Wants(User(i).login, f, NextLine(i, f))
               /\ conn' \in [Fds -> ConnRec] /\ \A e \in Fds \ {d} : conn'[e] = conn[e]
               /\ conn'[d].session = conn[d].session /\ conn'[d].client = conn[d].client
               /\ conn'[d].gone = conn[d].gone
               /\ conn'[d].got = IF conn[d].gone THEN conn[d].got
                                 ELSE Append(conn[d].got, <<f, NextLine(i, f)>>)
               /\ UNCHANGED <<remove, lapse>>
<1> DEFINE d == User(i).sockfd
           x == <<f, NextLine(i, f)>>
           c == [conn[d] EXCEPT !.got = Append(@, x)]
<1>1. conn \in [Fds -> ConnRec]
  BY TypeParts
<1>2. /\ ReadLine(i, f) /\ conn[d].session \in Sessions
      /\ Wants(User(i).login, f, NextLine(i, f))
      /\ conn' = IF conn[d].gone THEN conn ELSE [conn EXCEPT ![d] = c]
      /\ UNCHANGED <<remove, lapse>>
  BY DEF SendLine
<1>3. d \in Fds /\ x \in Files \X LineNums
  BY <1>2, ReadFacts
<1> HIDE DEF d, x
<1>4. /\ c \in ConnRec /\ c.session = conn[d].session /\ c.client = conn[d].client
      /\ c.gone = conn[d].gone /\ c.got = Append(conn[d].got, x)
  BY <1>1, <1>3, ReceiveConn
<1> HIDE DEF c
<1>5. CASE conn[d].gone
  BY <1>1, <1>2, <1>3, <1>5 DEF d, x
<1>6. CASE ~conn[d].gone
  <2>1. conn' = [conn EXCEPT ![d] = c]
    BY <1>2, <1>6
  <2>2. conn' \in [Fds -> ConnRec] /\ conn'[d] = c /\ \A e \in Fds \ {d} : conn'[e] = conn[e]
    BY <1>1, <1>3, <1>4, <2>1
  <2> QED
    BY <1>2, <1>3, <1>4, <1>6, <2>2 DEF d, x
<1> QED
  BY <1>5, <1>6
----------------------------------------------------------------------------
(* Types, and what holds even when a session thread removed its own user   *)

\* How the parts of BaseInv are kept when little changes
LEMMA SlotKept ==
    ASSUME SlotInHand,
           \A a \in Actors : remove'[a].pc # "idle" =>
               remove'[a].offset \in Users \/ remove'[a] = remove[a],
           \A i \in Sessions : local'[i].pc = "round" =>
               /\ local'[i].user_offset \in Users \/ local'[i].user_offset = local[i].user_offset
               /\ local'[i].user_offset \in Users \/ local[i].pc = "round"
    PROVE  SlotInHand'
BY DEF SlotInHand, Running

LEMMA SelectedKept ==
    ASSUME SelectedHasLine, written' = written,
           \A i \in Sessions :
               \/ thread'[i] = thread[i] /\ local'[i] = local[i]
               \/ thread'[i].fp = {}
               \/ local'[i].readfds = {}
               \/ /\ thread'[i].fp = thread[i].fp /\ thread'[i].read = thread[i].read
                  /\ local'[i] = local[i]
               \/ /\ thread'[i].read = thread[i].read
                  /\ \A f \in local'[i].readfds : thread[i].read[f] < written[f]
    PROVE  SelectedHasLine'
<1> SUFFICES ASSUME NEW i \in Sessions, NEW f \in Readable(i)'
             PROVE  thread'[i].read[f] < written'[f]
  BY DEF SelectedHasLine
<1>1. f \in local'[i].readfds /\ f \in thread'[i].fp
  BY DEF Readable
<1>2. f \in local[i].readfds /\ f \in thread[i].fp => thread[i].read[f] < written[f]
  BY DEF SelectedHasLine, Readable
<1> QED
  BY <1>1, <1>2

LEMMA RemoveBase ==
    ASSUME TypeOK, BaseInv, NEW a \in Actors, RemoveUser(a)
    PROVE  TypeOK' /\ BaseInv'
<1> USE ConstantFacts
<1>1. SlotInHand /\ TableHasRoom /\ SelectedHasLine
  BY DEF BaseInv
<1>2. CASE Terminate(a)
  <2>1. TypeOK'
    <3>1. /\ thread' \in [Sessions -> EntryType] /\ remove' \in [Actors -> RemoveRec]
          /\ UNCHANGED <<system_date, written, main, thread_count, local, response_user, conn,
                         lapse>>
      BY <1>2, TerminateFacts
    <3> QED
      BY <3>1, TypeParts, TypePartsNext
  <2>2. SlotInHand'
    <3>1. local' = local /\ remove[a].pc # "idle"
      BY <1>2, TerminateFacts
    <3>2. \A b \in Actors :
             \/ remove'[b] = remove[b]
             \/ b = a /\ remove'[a].offset = remove[a].offset
      BY <1>2, TerminateFacts
    <3>3. remove[a].offset \in Users
      BY <1>1, <3>1 DEF SlotInHand
    <3> QED
      BY <1>1, <3>1, <3>2, <3>3 DEF SlotInHand, Running
  <2>3. SelectedHasLine'
    <3> DEFINE j == Least(ThreadsOf(remove[a].offset))
    <3>1. /\ written' = written /\ local' = local
          /\ \A k \in Sessions \ {j} : thread'[k] = thread[k]
          /\ \/ thread'[j] = Entry(0)
             \/ thread'[j].fp = thread[j].fp /\ thread'[j].read = thread[j].read
      BY <1>2, TerminateFacts
    <3> HIDE DEF j
    <3>2. \A k \in Sessions :
             \/ thread'[k] = thread[k] \/ thread'[k].fp = {}
             \/ thread'[k].fp = thread[k].fp /\ thread'[k].read = thread[k].read
      BY <3>1, EntryFacts
    <3> QED
      BY <1>1, <3>1, <3>2, SelectedKept
  <2>4. TableHasRoom'
    BY <1>1, <1>2, TerminateFacts DEF TableHasRoom
  <2> QED
    BY <2>1, <2>2, <2>3, <2>4 DEF BaseInv
<1>3. CASE Join(a)
  <2>1. TypeOK'
    BY <1>3, JoinFacts, TypeParts, TypePartsNext
  <2>2. SlotInHand'
    BY <1>1, <1>3, JoinFacts, SlotKept DEF SlotInHand
  <2>3. SelectedHasLine'
    BY <1>1, <1>3, JoinFacts, EntryFacts, SelectedKept
  <2>4. TableHasRoom'
    BY <1>1, <1>3, JoinFacts DEF TableHasRoom
  <2> QED
    BY <2>1, <2>2, <2>3, <2>4 DEF BaseInv
<1>4. CASE LeaveLoop(a)
  <2>1. TypeOK'
    BY <1>4, LeaveFacts, TypeParts, TypePartsNext
  <2>2. SlotInHand'
    BY <1>1, <1>4, LeaveFacts, SlotKept DEF SlotInHand
  <2>3. SelectedHasLine'
    BY <1>1, <1>4, LeaveFacts, SelectedKept
  <2>4. TableHasRoom'
    BY <1>1, <1>4, LeaveFacts DEF TableHasRoom
  <2> QED
    BY <2>1, <2>2, <2>3, <2>4 DEF BaseInv
<1>5. CASE CloseUser(a)
  <2>1. TypeOK'
    BY <1>5, CloseFacts, TypeParts, TypePartsNext
  <2>2. SlotInHand'
    BY <1>1, <1>5, CloseFacts, SlotKept DEF SlotInHand
  <2>3. SelectedHasLine'
    BY <1>1, <1>5, CloseFacts, SelectedKept
  <2>4. TableHasRoom'
    BY <1>1, <1>5, CloseFacts DEF TableHasRoom
  <2> QED
    BY <2>1, <2>2, <2>3, <2>4 DEF BaseInv
<1>6. CASE ClearUser(a)
  <2>1. TypeOK'
    BY <1>6, ClearFacts, TypeParts, TypePartsNext
  <2>2. SlotInHand'
    BY <1>1, <1>6, ClearFacts, NotCalledFacts, SlotKept DEF SlotInHand
  <2>3. SelectedHasLine'
    BY <1>1, <1>6, ClearFacts, SelectedKept
  <2>4. TableHasRoom'
    BY <1>1, <1>6, ClearFacts DEF TableHasRoom
  <2> QED
    BY <2>1, <2>2, <2>3, <2>4 DEF BaseInv
<1> QED
  BY <1>2, <1>3, <1>4, <1>5, <1>6 DEF RemoveUser

\* A caller of RemoveUser that has a slot in hand has one of the table.
LEMMA CallBase ==
    ASSUME TypeOK, SlotInHand, NEW a \in Actors, NEW d \in Fds, CallRemoveUser(a, d),
           \A i \in Sessions : local'[i].pc = local[i].pc
                               /\ local'[i].user_offset = local[i].user_offset
    PROVE  SlotInHand'
<1>1. \A b \in Actors : remove'[b].pc # "idle" =>
          remove'[b].offset \in Users \/ remove'[b] = remove[b]
  BY CallFacts DEF UsersOf
<1> QED
  BY <1>1, SlotKept

LEMMA MainBase ==
    ASSUME TypeOK, BaseInv, MainThread
    PROVE  TypeOK' /\ BaseInv'
<1> USE ConstantFacts
<1>1. SlotInHand /\ TableHasRoom /\ SelectedHasLine
  BY DEF BaseInv
<1>2. CASE Poll
  <2>1. TypeOK'
    BY <1>2, PollFacts, TypeParts, TypePartsNext
  <2>2. SlotInHand' /\ SelectedHasLine'
    BY <1>1, <1>2, PollFacts, SlotKept, SelectedKept
  <2>3. TableHasRoom'
    BY <1>1, <1>2, PollFacts DEF TableHasRoom
  <2> QED
    BY <2>1, <2>2, <2>3 DEF BaseInv
<1>3. ASSUME NEW d \in Fds, RemoveClient(d) PROVE TypeOK' /\ BaseInv'
  <2>1. CallRemoveUser(0, d)
    BY <1>3, RemoveClientFacts
  <2>2. TypeOK'
    BY <1>3, <2>1, RemoveClientFacts, CallFacts, TypeParts, TypePartsNext
  <2>3. SlotInHand'
    BY <1>1, <1>3, <2>1, RemoveClientFacts, CallBase
  <2>4. SelectedHasLine'
    BY <1>1, <1>3, RemoveClientFacts, SelectedKept
  <2>5. TableHasRoom'
    BY <1>1, <1>3, RemoveClientFacts DEF TableHasRoom
  <2> QED
    BY <2>2, <2>3, <2>4, <2>5 DEF BaseInv
<1>4. ASSUME NEW l \in Logins, AcceptUser(l) PROVE TypeOK' /\ BaseInv'
  <2>1. TypeOK'
    BY <1>4, AcceptFacts, TypeParts, TypePartsNext
  <2>2. SlotInHand'
    BY <1>1, <1>4, AcceptFacts, SlotKept
  <2>3. SelectedHasLine'
    BY <1>1, <1>4, AcceptFacts, EntryFacts, SelectedKept
  <2>4. TableHasRoom'
    BY <1>1, <1>4, AcceptFacts DEF TableHasRoom
  <2> QED
    BY <2>1, <2>2, <2>3, <2>4 DEF BaseInv
<1>5. CASE RefuseUser
  <2>1. TypeOK'
    BY <1>5, RefuseFacts, TypeParts, TypePartsNext
  <2>2. SlotInHand' /\ SelectedHasLine'
    BY <1>1, <1>5, RefuseFacts, SlotKept, SelectedKept
  <2>3. TableHasRoom'
    BY <1>1, <1>5, RefuseFacts DEF TableHasRoom
  <2> QED
    BY <2>1, <2>2, <2>3 DEF BaseInv
<1>6. CASE CountThread
  <2>1. TypeOK'
    BY <1>6, CountFacts, TypeParts, TypePartsNext
  <2>2. SlotInHand' /\ SelectedHasLine'
    BY <1>1, <1>6, CountFacts, SlotKept, SelectedKept
  <2>3. TableHasRoom'
    BY <1>1, <1>6, CountFacts DEF TableHasRoom
  <2> QED
    BY <2>1, <2>2, <2>3 DEF BaseInv
<1>7. CASE RemoveUser(0)
  BY <1>7, RemoveBase
<1> QED
  BY <1>2, <1>3, <1>4, <1>5, <1>6, <1>7 DEF MainThread

\* A line is read: one file less is selected.
LEMMA ReadBase ==
    ASSUME TypeOK, BaseInv, NEW i \in Sessions, NEW f \in Files, ReadLine(i, f)
    PROVE  SelectedHasLine' /\ TableHasRoom'
<1>1. TableHasRoom'
  BY ReadFacts DEF BaseInv, TableHasRoom
<1>2. SelectedHasLine'
  <2> SUFFICES ASSUME NEW k \in Sessions, NEW g \in Readable(k)'
               PROVE  thread'[k].read[g] < written'[g]
    BY DEF SelectedHasLine
  <2>1. g \in local'[k].readfds /\ g \in thread'[k].fp
    BY DEF Readable
  <2>2. g \in local[k].readfds /\ g \in thread[k].fp => thread[k].read[g] < written[g]
    BY DEF BaseInv, SelectedHasLine, Readable
  <2>3. CASE k # i
    BY <2>1, <2>2, <2>3, ReadFacts
  <2>4. CASE k = i
    <3>1. g \in local[i].readfds /\ g # f /\ g \in thread[i].fp
      BY <2>1, <2>4, ReadFacts
    <3>2. thread'[i].fp \subseteq Files
      BY ReadFacts, EntryTypeFacts
    <3> QED
      BY <2>1, <2>2, <2>4, <3>1, <3>2, ReadFacts
  <2> QED
    BY <2>3, <2>4
<1> QED
  BY <1>1, <1>2

LEMMA ThreadBase ==
    ASSUME TypeOK, BaseInv, NEW i \in Sessions, ThreadProcess(i)
    PROVE  TypeOK' /\ BaseInv'
<1> USE ConstantFacts
<1>1. SlotInHand /\ TableHasRoom /\ SelectedHasLine
  BY DEF BaseInv
<1>2. CASE BeginRound(i)
  <2>1. TypeOK'
    BY <1>2, BeginFacts, TypeParts, TypePartsNext
  <2>2. SlotInHand'
    BY <1>1, <1>2, BeginFacts, SlotKept
  <2>3. SelectedHasLine'
    BY <1>1, <1>2, BeginFacts, SelectedKept
  <2>4. TableHasRoom'
    BY <1>1, <1>2, BeginFacts DEF TableHasRoom
  <2> QED
    BY <2>1, <2>2, <2>3, <2>4 DEF BaseInv
<1>3. CASE EndThread(i)
  <2>1. TypeOK'
    BY <1>3, EndFacts, TypeParts, TypePartsNext
  <2>2. SlotInHand'
    BY <1>1, <1>3, EndFacts, SlotKept
  <2>3. SelectedHasLine'
    BY <1>1, <1>3, EndFacts, SelectedKept
  <2>4. TableHasRoom'
    BY <1>1, <1>3, EndFacts DEF TableHasRoom
  <2> QED
    BY <2>1, <2>2, <2>3, <2>4 DEF BaseInv
<1>4. ASSUME NEW f \in Files, SkipLine(i, f) PROVE TypeOK' /\ BaseInv'
  <2>1. ReadLine(i, f) /\ UNCHANGED <<remove, conn, lapse>>
    BY <1>4 DEF SkipLine
  <2>2. TypeOK'
    BY <2>1, ReadFacts, TypeParts, TypePartsNext
  <2>3. SlotInHand'
    BY <1>1, <2>1, ReadFacts, SlotKept
  <2> QED
    BY <2>1, <2>2, <2>3, ReadBase DEF BaseInv
<1>5. ASSUME NEW f \in Files, SendLine(i, f) PROVE TypeOK' /\ BaseInv'
  <2>1. /\ ReadLine(i, f) /\ UNCHANGED <<remove, lapse>>
        /\ conn' \in [Fds -> ConnRec]
    BY <1>5, SendFacts
  <2>2. TypeOK'
    BY <2>1, ReadFacts, TypeParts, TypePartsNext
  <2>3. SlotInHand'
    BY <1>1, <2>1, ReadFacts, SlotKept
  <2> QED
    BY <2>1, <2>2, <2>3, ReadBase DEF BaseInv
<1>6. ASSUME NEW f \in Files, SendFails(i, f) PROVE TypeOK' /\ BaseInv'
  <2>1. ReadLine(i, f) /\ CallRemoveUser(i, User(i).sockfd) /\ lapse' = lapse \cup {i}
    BY <1>6 DEF SendFails
  <2>2. User(i).sockfd \in Fds
    BY <2>1, ReadFacts
  <2>3. remove' \in [Actors -> RemoveRec] /\ conn' \in [Fds -> ConnRec]
    BY <2>1, <2>2, CallFacts
  <2>4. TypeOK'
    BY <2>1, <2>3, ReadFacts, TypeParts, TypePartsNext
  <2>5. \A k \in Sessions : local'[k].pc = local[k].pc
                            /\ local'[k].user_offset = local[k].user_offset
    BY <2>1, ReadFacts
  <2>6. SlotInHand'
    BY <1>1, <2>1, <2>2, <2>5, CallBase
  <2> QED
    BY <2>1, <2>4, <2>6, ReadBase DEF BaseInv
<1>7. CASE RemoveUser(i)
  BY <1>7, RemoveBase
<1> QED
  BY <1>2, <1>3, <1>4, <1>5, <1>6, <1>7 DEF ThreadProcess

\* A line is written to a file, be it of the day of system_date or another.
LEMMA AppendBase ==
    ASSUME TypeOK, BaseInv, NEW f \in Files,
           written[f] < MaxLines, written' = [written EXCEPT ![f] = @ + 1],
           UNCHANGED <<system_date, main, thread_count, thread, local, remove, response_user, conn,
                       lapse>>
    PROVE  TypeOK' /\ BaseInv'
<1> USE ConstantFacts
<1>1. SlotInHand /\ TableHasRoom /\ SelectedHasLine
  BY DEF BaseInv
<1>2. written \in [Files -> 0 .. MaxLines]
  BY TypeParts
<1>3. /\ written' \in [Files -> 0 .. MaxLines]
      /\ \A g \in Files : written[g] \in Nat /\ written[g] <= written'[g] /\ written'[g] \in Nat
  BY <1>1, <1>2
<1>4. TypeOK'
  BY <1>1, <1>3, TypeParts, TypePartsNext
<1>5. SlotInHand'
  BY <1>1, SlotKept
<1>6. SelectedHasLine'
  <2> SUFFICES ASSUME NEW k \in Sessions, NEW g \in Readable(k)'
               PROVE  thread'[k].read[g] < written'[g]
    BY DEF SelectedHasLine
  <2>1. g \in Readable(k) /\ thread'[k] = thread[k]
    BY <1>1 DEF Readable
  <2>2. thread[k] \in EntryType
    BY TypeParts
  <2>3. g \in Files /\ thread[k].read[g] \in 0 .. MaxLines
    BY <2>1, <2>2, EntryTypeFacts DEF Readable
  <2>4. thread[k].read[g] < written[g]
    BY <1>1, <2>1 DEF SelectedHasLine
  <2> QED
    BY <1>3, <2>1, <2>3, <2>4
<1>7. TableHasRoom'
  BY <1>1 DEF TableHasRoom
<1> QED
  BY <1>4, <1>5, <1>6, <1>7 DEF BaseInv

LEMMA BaseStep ==
    ASSUME TypeOK, BaseInv, [Next]_vars
    PROVE  TypeOK' /\ BaseInv'
<1> USE ConstantFacts
<1>1. SlotInHand /\ TableHasRoom /\ SelectedHasLine
  BY DEF BaseInv
<1>2. CASE InitServer
  <2>1. /\ main \in MainRec /\ main' = [main EXCEPT !.pc = "loop"]
        /\ UNCHANGED <<system_date, written, thread_count, thread, local, remove, response_user,
                       conn, lapse>>
    BY <1>2, TypeParts DEF InitServer, env, table
  <2>2. main' \in MainRec /\ main'.pc = "loop" /\ main'.events = main.events
    BY <2>1, MoveMain
  <2>3. TypeOK'
    BY <2>1, <2>2, TypeParts, TypePartsNext
  <2>4. SlotInHand' /\ SelectedHasLine'
    BY <1>1, <2>1, SlotKept, SelectedKept
  <2>5. TableHasRoom'
    BY <1>1, <2>1, <2>2 DEF TableHasRoom
  <2> QED
    BY <2>3, <2>4, <2>5 DEF BaseInv
<1>3. CASE Stop
  BY <1>3, StopInv DEF IInv
<1>4. CASE InitSystemDate
  <2>1. /\ system_date' \in Dates
        /\ UNCHANGED <<written, main, thread_count, thread, local, remove, response_user, conn,
                       lapse>>
    BY <1>4 DEF InitSystemDate, table
  <2>2. TypeOK'
    BY <2>1, TypeParts, TypePartsNext
  <2>3. SlotInHand' /\ SelectedHasLine'
    BY <1>1, <2>1, SlotKept, SelectedKept
  <2>4. TableHasRoom'
    BY <1>1, <2>1 DEF TableHasRoom
  <2> QED
    BY <2>2, <2>3, <2>4 DEF BaseInv
<1>5. ASSUME NEW f \in Files, AppendResponse(f) PROVE TypeOK' /\ BaseInv'
  <2>1. /\ written[f] < MaxLines /\ written' = [written EXCEPT ![f] = @ + 1]
        /\ UNCHANGED <<system_date, main, thread_count, thread, local, remove, response_user, conn,
                       lapse>>
    BY <1>5 DEF AppendResponse, table
  <2> QED
    BY <2>1, AppendBase
<1>6. ASSUME NEW d \in Fds, HangUp(d) PROVE TypeOK' /\ BaseInv'
  <2>1. TypeOK'
    BY <1>6, HangUpFacts, TypeParts, TypePartsNext
  <2>2. SlotInHand' /\ SelectedHasLine'
    BY <1>1, <1>6, HangUpFacts, SlotKept, SelectedKept
  <2>3. TableHasRoom'
    BY <1>1, <1>6, HangUpFacts DEF TableHasRoom
  <2> QED
    BY <2>1, <2>2, <2>3 DEF BaseInv
<1>7. CASE MainThread
  BY <1>7, MainBase
<1>8. ASSUME NEW i \in Sessions, ThreadProcess(i) PROVE TypeOK' /\ BaseInv'
  BY <1>8, ThreadBase
<1>9. CASE UNCHANGED vars
  <2>1. UNCHANGED <<system_date, written, main, thread_count, thread, local, remove, response_user,
                    conn, lapse>>
    BY <1>9 DEF vars, env, table
  <2>2. TypeOK'
    BY <2>1, TypeParts, TypePartsNext
  <2>3. SlotInHand' /\ SelectedHasLine'
    BY <1>1, <2>1, SlotKept, SelectedKept
  <2>4. TableHasRoom'
    BY <1>1, <2>1 DEF TableHasRoom
  <2> QED
    BY <2>2, <2>3, <2>4 DEF BaseInv
<1> QED
  BY <1>2, <1>3, <1>4, <1>5, <1>6, <1>7, <1>8, <1>9 DEF Next
----------------------------------------------------------------------------
(* The four tables, as long as no session thread has removed its own user  *)

LEMMA TableTypes ==
    ASSUME TypeOK
    PROVE  /\ thread_count \in Nat /\ 1 .. thread_count \subseteq Sessions
           /\ NewThread \notin 1 .. thread_count
           /\ \A o \in Users : response_user[o].sockfd \in Fds
           /\ \A d \in Fds : conn[d].session \in {-1, 0} \cup Sessions
           /\ main.events \ {Listen} \subseteq Fds
<1>1. /\ main \in MainRec /\ response_user \in [Users -> UserRec] /\ conn \in [Fds -> ConnRec]
      /\ thread_count \in Actors
  BY TypeParts
<1>2. thread_count \in Nat /\ 1 .. thread_count \subseteq Sessions /\ NewThread \notin 1 .. thread_count
  BY <1>1, ConstantFacts DEF Actors, Sessions, NewThread
<1>3. main.events \ {Listen} \subseteq Fds
  BY <1>1, MainFacts
<1>4. \A o \in Users : response_user[o].sockfd \in Fds
  BY <1>1, UserFacts
<1>5. \A d \in Fds : conn[d].session \in {-1, 0} \cup Sessions
  BY <1>1, ConnFacts, ConstantFacts
<1> QED
  BY <1>2, <1>3, <1>4, <1>5

\* Nothing that the tables are about changes.
LEMMA TableKept ==
    ASSUME TypeOK, BaseInv, TableInv,
           UNCHANGED <<main, thread_count, remove, response_user>>,
           \A i \in Sessions :
               /\ local'[i].pc = local[i].pc /\ local'[i].user_offset = local[i].user_offset
               /\ thread'[i].thread_terminate = thread[i].thread_terminate
               /\ thread'[i].user_offset = thread[i].user_offset,
           \A d \in Fds :
               /\ conn'[d].session = conn[d].session /\ conn'[d].client = conn[d].client
               /\ conn'[d].gone = conn[d].gone
    PROVE  TableInv'
<1> USE ConstantFacts, TableTypes
<1>1. OnlyMainRemoves' /\ Created' /\ EntryInUse'
  <2>1. OnlyMainRemoves'
    BY DEF TableInv, OnlyMainRemoves
  <2>2. Created'
    <3>1. main.pc = "count" => NewThread \in Sessions
      BY DEF BaseInv, TableHasRoom, NewThread, Sessions
    <3> QED
      BY <3>1 DEF TableInv, Created, Running, NewThread
  <2>3. EntryInUse'
    BY DEF TableInv, EntryInUse, Joined, Running
  <2> QED
    BY <2>1, <2>2, <2>3
<1>2. SessionConn'
  <2> SUFFICES ASSUME NEW i \in Sessions, Running(i)'
               PROVE  /\ thread'[i].user_offset = local'[i].user_offset
                      /\ conn'[User(i)'.sockfd].session = i
                      /\ conn'[User(i)'.sockfd].client = User(i)'.login
    BY DEF SessionConn
  <2>1. Running(i) /\ User(i)' = User(i) /\ thread'[i].user_offset = thread[i].user_offset
        /\ local'[i].user_offset = local[i].user_offset
    BY DEF Running, User
  <2>2. User(i).sockfd \in Fds
    BY <2>1 DEF User, BaseInv, SlotInHand
  <2>3. /\ thread[i].user_offset = local[i].user_offset
        /\ conn[User(i).sockfd].session = i /\ conn[User(i).sockfd].client = User(i).login
    BY <2>1 DEF TableInv, SessionConn
  <2> QED
    BY <2>1, <2>2, <2>3
<1>3. Waiting' /\ LeavingSlot' /\ SlotsApart'
  BY DEF TableInv, Waiting, LeavingSlot, SlotsApart
<1>4. SlotConn'
  BY DEF TableInv, SlotConn, Leaving
<1>5. SlotServed'
  <2> SUFFICES ASSUME NEW o \in Users, response_user[o].sockfd # 0, ~Leaving(o)
               PROVE  \E i \in Sessions : local'[i].pc = "round" /\ local'[i].user_offset = o
    BY DEF SlotServed, Leaving, Running
  <2>1. PICK i \in Sessions : Running(i) /\ local[i].user_offset = o
    BY DEF TableInv, SlotServed
  <2> QED
    BY <2>1 DEF Running
<1>6. ConnSlot'
  BY DEF TableInv, ConnSlot, UsersOf, NewThread
<1>7. Events'
  BY DEF TableInv, Events, UsersOf, Leaving
<1> QED
  BY <1>1, <1>2, <1>3, <1>4, <1>5, <1>6, <1>7 DEF TableInv

\* What of the invariant says that a running thread's slot and descriptor are in use
LEMMA RunningFacts ==
    ASSUME TypeOK, BaseInv, TableInv, NEW i \in Sessions, Running(i)
    PROVE  /\ local[i].user_offset \in Users /\ thread[i].user_offset = local[i].user_offset
           /\ User(i) = response_user[local[i].user_offset]
           /\ User(i).sockfd \in Fds /\ User(i).sockfd # 0
           /\ conn[User(i).sockfd].session = i /\ conn[User(i).sockfd].client = User(i).login
<1>1. local[i].user_offset \in Users
  BY DEF BaseInv, SlotInHand
<1>2. /\ thread[i].user_offset = local[i].user_offset
      /\ conn[User(i).sockfd].session = i /\ conn[User(i).sockfd].client = User(i).login
  BY DEF TableInv, SessionConn
<1>3. User(i).sockfd \in Fds
  BY <1>1, TableTypes DEF User
<1>4. conn[0].session = -1 /\ i # -1
  BY ConstantFacts DEF TableInv, ConnSlot
<1> QED
  BY <1>1, <1>2, <1>3, <1>4 DEF User

LEMMA HangUpTable ==
    ASSUME TypeOK, BaseInv, TableInv, NEW d \in Fds, HangUp(d)
    PROVE  TableInv'
<1> USE ConstantFacts, TableTypes
<1>1. /\ conn[d].session \in Sessions
      /\ \A e \in Fds : /\ conn'[e].session = conn[e].session /\ conn'[e].client = conn[e].client
                        /\ conn'[e].gone => conn[e].gone \/ e = d
                        /\ conn[e].gone => conn'[e].gone
      /\ UNCHANGED <<main, thread_count, thread, local, remove, response_user>>
  BY HangUpFacts
<1>2. OnlyMainRemoves' /\ Created' /\ EntryInUse'
  BY <1>1 DEF TableInv, OnlyMainRemoves, Created, EntryInUse, Joined, Running, NewThread
<1>3. SessionConn'
  BY <1>1 DEF TableInv, SessionConn, Running, User, BaseInv, SlotInHand
<1>4. Waiting' /\ LeavingSlot' /\ SlotsApart'
  BY <1>1 DEF TableInv, Waiting, LeavingSlot, SlotsApart
<1>5. SlotConn'
  BY <1>1 DEF TableInv, SlotConn, Leaving
<1>6. SlotServed'
  BY <1>1 DEF TableInv, SlotServed, Leaving, Running
<1>7. ConnSlot'
  BY <1>1 DEF TableInv, ConnSlot, UsersOf, NewThread
<1>8. Events'
  BY <1>1 DEF TableInv, Events, UsersOf, Leaving
<1> QED
  BY <1>2, <1>3, <1>4, <1>5, <1>6, <1>7, <1>8 DEF TableInv

\* The main thread is between two operations, or starts.
LEMMA MainTable ==
    ASSUME TypeOK, BaseInv, TableInv,
           main.pc # "count", main'.pc = "loop", 
           \A d \in main'.events \ {Listen} : d \in Fds /\ conn[d].gone,
           remove[0].pc = "idle" \/ main'.events = main.events,
           UNCHANGED <<thread_count, thread, local, remove, response_user, conn>>
    PROVE  TableInv'
<1> USE ConstantFacts, TableTypes
<1>1. OnlyMainRemoves' /\ Created' /\ EntryInUse'
  BY DEF TableInv, OnlyMainRemoves, Created, EntryInUse, Joined, Running, NewThread
<1>2. SessionConn'
  BY DEF TableInv, SessionConn, Running, User
<1>3. Waiting' /\ LeavingSlot' /\ SlotsApart'
  BY DEF TableInv, Waiting, LeavingSlot, SlotsApart
<1>4. SlotConn' /\ SlotServed'
  BY DEF TableInv, SlotConn, SlotServed, Leaving, Running
<1>5. ConnSlot'
  BY DEF TableInv, ConnSlot, UsersOf, NewThread
<1>6. Events'
  BY DEF TableInv, Events, UsersOf, Leaving
<1> QED
  BY <1>1, <1>2, <1>3, <1>4, <1>5, <1>6 DEF TableInv

LEMMA CountTable ==
    ASSUME TypeOK, BaseInv, TableInv, CountThread
    PROVE  TableInv'
<1> USE ConstantFacts, TableTypes
<1>1. /\ main.pc = "count" /\ main'.pc = "loop" /\ main'.events = main.events
      /\ NewThread \in Sessions /\ thread_count' = NewThread
      /\ UNCHANGED <<thread, local, remove, response_user, conn>>
  BY CountFacts
<1>2. remove[0].pc = "idle" /\ Running(NewThread)
  BY <1>1 DEF TableInv, OnlyMainRemoves, Created
<1>3. \A i \in Sessions : i <= NewThread => i <= thread_count \/ i = NewThread
  BY DEF NewThread
<1>4. \A i \in Sessions : i <= thread_count \/ i = NewThread => i <= thread_count'
  BY <1>1 DEF NewThread
<1>5. OnlyMainRemoves' /\ SessionConn' /\ Waiting' /\ LeavingSlot' /\ SlotsApart'
  BY <1>1, <1>2 DEF TableInv, OnlyMainRemoves, SessionConn, Running, User, Waiting, LeavingSlot,
                    SlotsApart
<1>6. Created'
  BY <1>1, <1>4 DEF TableInv, Created
<1>7. EntryInUse'
  BY <1>1, <1>2, <1>3 DEF TableInv, EntryInUse, Joined, Running
<1>8. SlotConn' /\ SlotServed' /\ Events'
  BY <1>1 DEF TableInv, SlotConn, SlotServed, Leaving, Running, Events, UsersOf
<1>9. ConnSlot'
  BY <1>1, <1>4 DEF TableInv, ConnSlot, UsersOf
<1> QED
  BY <1>5, <1>6, <1>7, <1>8, <1>9 DEF TableInv

\* The service of an event has a slot: the main thread begins to remove it.
LEMMA RemoveClientTable ==
    ASSUME TypeOK, BaseInv, TableInv, NEW d \in Fds, RemoveClient(d)
    PROVE  TableInv' /\ conn' = conn
<1> USE ConstantFacts, TableTypes
<1>1. /\ main.pc = "loop" /\ remove[0].pc = "idle" /\ d \in main.events \ {Listen}
      /\ main'.pc = "loop" /\ main'.events = main.events \ {d}
      /\ UNCHANGED <<thread_count, thread, local, response_user>>
      /\ CallRemoveUser(0, d)
  BY RemoveClientFacts
<1>2. conn[d].gone /\ conn[d].session \in Sessions /\ UsersOf(d) # {} /\ d # 0
  BY <1>1 DEF TableInv, Events, ConnSlot
<1>3. /\ conn' = conn /\ remove'[0].pc = "find" /\ remove'[0].offset \in UsersOf(d)
      /\ \A b \in Sessions : remove'[b] = remove[b]
  <2>1. \A b \in Sessions : b \in Actors \ {0}
    OBVIOUS
  <2> QED
    BY <1>1, <1>2, <2>1, CallFacts
<1>4. remove'[0].offset \in Users /\ response_user[remove'[0].offset].sockfd = d
  BY <1>3 DEF UsersOf
<1>5. OnlyMainRemoves' /\ Created' /\ EntryInUse' /\ Waiting'
  BY <1>1, <1>3 DEF TableInv, OnlyMainRemoves, Created, EntryInUse, Joined, Running, NewThread,
                    Waiting
<1>6. SessionConn' /\ SlotsApart'
  BY <1>1, <1>3 DEF TableInv, SessionConn, Running, User, SlotsApart
<1>7. LeavingSlot'
  BY <1>1, <1>2, <1>4 DEF LeavingSlot
<1>8. SlotConn' /\ SlotServed'
  BY <1>1, <1>3 DEF TableInv, SlotConn, SlotServed, Leaving, Running
<1>9. ConnSlot'
  BY <1>1, <1>3 DEF TableInv, ConnSlot, UsersOf, NewThread
<1>10. Events'
  BY <1>1, <1>3, <1>4 DEF TableInv, Events, UsersOf, Leaving
<1> QED
  BY <1>3, <1>5, <1>6, <1>7, <1>8, <1>9, <1>10 DEF TableInv

LEMMA EndTable ==
    ASSUME TypeOK, BaseInv, TableInv, NEW i \in Sessions, EndThread(i)
    PROVE  TableInv'
<1> USE ConstantFacts, TableTypes
<1>1. /\ Running(i) /\ thread[i].thread_terminate /\ local'[i].pc = "done"
      /\ \A k \in Sessions \ {i} : local'[k] = local[k]
      /\ UNCHANGED <<main, thread_count, thread, remove, response_user, conn>>
  BY EndFacts DEF Running
<1>2. Joined(i)
  BY <1>1 DEF TableInv, EntryInUse
<1>3. /\ remove[0].pc = "wait" /\ remove[0].i = i /\ main.pc = "loop"
      /\ i \in 1 .. thread_count /\ Leaving(local[i].user_offset)
  BY <1>1, <1>2 DEF TableInv, Joined, OnlyMainRemoves, Waiting, SessionConn, Leaving
<1>4. \A k \in Sessions : Running(k)' <=> Running(k) /\ k # i
  BY <1>1 DEF Running
<1>5. OnlyMainRemoves' /\ Waiting' /\ LeavingSlot' /\ SlotsApart' /\ SlotConn'
  BY <1>1 DEF TableInv, OnlyMainRemoves, Waiting, LeavingSlot, SlotsApart, SlotConn, Leaving
<1>6. Created'
  BY <1>1, <1>3 DEF TableInv, Created, NewThread
<1>7. SessionConn'
  BY <1>1, <1>4 DEF TableInv, SessionConn, User
<1>8. EntryInUse'
  BY <1>1, <1>2, <1>4 DEF TableInv, EntryInUse, Joined
<1>9. SlotServed'
  <2> SUFFICES ASSUME NEW o \in Users, response_user[o].sockfd # 0, ~Leaving(o)
               PROVE  \E k \in Sessions : Running(k)' /\ local'[k].user_offset = o
    BY <1>1 DEF SlotServed, Leaving
  <2>1. PICK k \in Sessions : Running(k) /\ local[k].user_offset = o
    BY DEF TableInv, SlotServed
  <2>2. k # i
    BY <1>3, <2>1
  <2> QED
    BY <1>1, <1>4, <2>1, <2>2
<1>10. ConnSlot' /\ Events'
  BY <1>1 DEF TableInv, ConnSlot, UsersOf, NewThread, Events, Leaving
<1> QED
  BY <1>5, <1>6, <1>7, <1>8, <1>9, <1>10 DEF TableInv
\* The slot and the descriptor that a service gets are nobody's, and so is the entry.
LEMMA AcceptTable ==
    ASSUME TypeOK, BaseInv, TableInv, NEW l \in Logins, AcceptUser(l)
    PROVE  TableInv'
<1> USE ConstantFacts
<1>0. PICK N \in Sessions : N = NewThread
  BY AcceptFacts
<1>1. /\ main.pc = "loop" /\ remove[0].pc = "idle" /\ main'.events = main.events \ {Listen}
      /\ thread_count' = thread_count
  BY AcceptFacts
<1>2. PICK d \in Fds : \E o \in Users :
                 /\ conn[d].session = 0 /\ response_user[o].sockfd = 0
                 /\ response_user'[o] = NewUser(d, l)
                 /\ \A p \in Users \ {o} : response_user'[p] = response_user[p]
                 /\ conn'[d] = Socket(NewThread, l) /\ \A e \in Fds \ {d} : conn'[e] = conn[e]
                 /\ thread'[NewThread] = Entry(o)
                 /\ \A i \in Sessions \ {NewThread} : thread'[i] = thread[i]
                 /\ \/ /\ local'[NewThread].pc = "round" /\ local'[NewThread].user_offset = o
                       /\ \A i \in Sessions \ {NewThread} : local'[i] = local[i]
                       /\ main'.pc = "count" /\ remove' = remove
                    \/ /\ remove'[0].pc = "find" /\ remove'[0].offset = o
                       /\ \A b \in Sessions : remove'[b] = remove[b]
                       /\ main'.pc = "loop" /\ local' = local
  BY AcceptFacts
<1>3. PICK o \in Users :
                 /\ conn[d].session = 0 /\ response_user[o].sockfd = 0
                 /\ response_user'[o] = NewUser(d, l)
                 /\ \A p \in Users \ {o} : response_user'[p] = response_user[p]
                 /\ conn'[d] = Socket(N, l) /\ \A e \in Fds \ {d} : conn'[e] = conn[e]
                 /\ thread'[N] = Entry(o)
                 /\ \A i \in Sessions \ {N} : thread'[i] = thread[i]
                 /\ \/ /\ local'[N].pc = "round" /\ local'[N].user_offset = o
                       /\ \A i \in Sessions \ {N} : local'[i] = local[i]
                       /\ main'.pc = "count" /\ remove' = remove
                    \/ /\ remove'[0].pc = "find" /\ remove'[0].offset = o
                       /\ \A b \in Sessions : remove'[b] = remove[b]
                       /\ main'.pc = "loop" /\ local' = local
  BY <1>0, <1>2
<1>4. /\ thread_count \in Nat /\ 1 .. thread_count \subseteq Sessions
      /\ \A p \in Users : response_user[p].sockfd \in Fds
      /\ main.events \ {Listen} \subseteq Fds
  BY TableTypes
<1>5. /\ N = thread_count + 1 /\ NewThread' = N /\ \A i \in Sessions : i <= thread_count => i # N
      /\ ~(N <= thread_count)
  BY <1>0, <1>1, <1>4 DEF NewThread
<1>6. conn[0].session = -1 /\ d # 0
  BY <1>3 DEF TableInv, ConnSlot
<1>7. /\ response_user'[o].sockfd = d /\ response_user'[o].login = l
      /\ conn'[d].session = N /\ conn'[d].client = l /\ ~conn'[d].gone
      /\ thread'[N].user_offset = o /\ ~thread'[N].thread_terminate
  <2>1. response_user'[o].sockfd = d /\ response_user'[o].login = l
    BY <1>3 DEF NewUser
  <2>2. conn'[d].session = N /\ conn'[d].client = l /\ ~conn'[d].gone
    <3>1. conn'[d] = Socket(N, l)
      BY <1>3
    <3> QED
      BY <3>1, SocketFacts
  <2>3. thread'[N].user_offset = o /\ ~thread'[N].thread_terminate
    BY <1>3, EntryFacts
  <2> QED
    BY <2>1, <2>2, <2>3
\* Those who have a thread or a slot already
<1>8. local[N].pc = "none" /\ \A i \in Sessions : Running(i) => i <= thread_count /\ i # N
  <2>1. \A i \in Sessions : local[i].pc # "none" => i <= thread_count
    BY <1>0, <1>1 DEF TableInv, Created
  <2>2. local[N].pc = "none"
    BY <1>1, <1>5, <2>1
  <2> QED
    BY <2>1, <2>2, <1>5 DEF Running
<1>9. ASSUME NEW i \in Sessions, Running(i)
      PROVE  local[i].user_offset \in Users /\ local[i].user_offset # o /\ User(i).sockfd # d
             /\ User(i).sockfd \in Fds
  BY <1>3, <1>9, RunningFacts
<1>10. \A i \in Sessions \ {N} : Running(i)' <=> Running(i)
  BY <1>3 DEF Running
<1>11. Running(N)' => main'.pc = "count" /\ local'[N].user_offset = o /\ remove' = remove
  BY <1>3, <1>8 DEF Running
<1>12. \A i \in Sessions \ {N} : local'[i] = local[i]
  BY <1>3
<1>13. \A p \in Users : response_user[p].sockfd # 0 =>
           /\ p # o /\ response_user[p].sockfd # d
           /\ conn[response_user[p].sockfd].session \in Sessions
           /\ conn'[response_user[p].sockfd].session \in Sessions
  <2>1. \A p \in Users : response_user[p].sockfd # 0 =>
            conn[response_user[p].sockfd].session \in Sessions
    BY <1>1 DEF TableInv, SlotConn, Leaving
  <2> QED
    BY <1>3, <1>4, <2>1
<1>14. OnlyMainRemoves'
  BY <1>1, <1>3 DEF TableInv, OnlyMainRemoves
<1>15. Created'
  <2>1. \A i \in Sessions : local'[i].pc # "none" =>
            i <= thread_count \/ (i = N /\ main'.pc = "count")
    <3>1. \A i \in Sessions \ {N} : local'[i].pc # "none" => i <= thread_count
      BY <1>1, <1>12 DEF TableInv, Created
    <3>2. local'[N].pc # "none" => main'.pc = "count"
      BY <1>3, <1>8
    <3> QED
      BY <3>1, <3>2
  <2>2. main'.pc = "count" => local'[N].pc = "round"
    BY <1>3
  <2> QED
    BY <1>1, <1>5, <2>1, <2>2 DEF Created, Running
<1>16. SessionConn'
  <2> SUFFICES ASSUME NEW i \in Sessions, Running(i)'
               PROVE  /\ thread'[i].user_offset = local'[i].user_offset
                      /\ conn'[User(i)'.sockfd].session = i
                      /\ conn'[User(i)'.sockfd].client = User(i)'.login
    BY DEF SessionConn
  <2>1. CASE i = N
    <3>1. User(N)' = response_user'[o]
      BY <1>11, <2>1 DEF User
    <3> QED
      BY <1>7, <1>11, <2>1, <3>1
  <2>2. CASE i # N
    <3>1. Running(i)
      BY <1>10, <2>2
    <3>2. User(i)' = User(i) /\ conn'[User(i).sockfd] = conn[User(i).sockfd]
      <4>1. /\ local[i].user_offset \in Users \ {o}
            /\ User(i).sockfd \in Fds \ {d}
        BY <1>9, <3>1
      <4>2. local'[i] = local[i]
        BY <1>12, <2>2
      <4>3. response_user'[local[i].user_offset] = response_user[local[i].user_offset]
        BY <1>3, <4>1
      <4>4. conn'[User(i).sockfd] = conn[User(i).sockfd]
        BY <1>3, <4>1
      <4> QED
        BY <4>2, <4>3, <4>4 DEF User
    <3> QED
      BY <1>3, <1>12, <2>2, <3>1, <3>2, RunningFacts
  <2> QED
    BY <2>1, <2>2
<1>17. EntryInUse'
  <2> SUFFICES ASSUME NEW i \in Sessions
               PROVE  /\ i <= thread_count' /\ thread'[i].user_offset # 0 => Running(i)' \/ Joined(i)'
                      /\ Running(i)' /\ thread'[i].thread_terminate => Joined(i)'
    BY DEF EntryInUse
  <2>1. CASE i = N
    BY <1>1, <1>5, <1>7, <2>1
  <2>2. CASE i # N
    BY <1>1, <1>3, <1>10, <2>2 DEF TableInv, EntryInUse, Joined
  <2> QED
    BY <2>1, <2>2
<1>18. remove'[0].pc # "idle" => remove'[0].pc = "find" /\ remove'[0].offset = o
  BY <1>1, <1>3
<1>19. Waiting' /\ LeavingSlot'
  BY <1>6, <1>7, <1>18 DEF Waiting, LeavingSlot
<1>20. SlotConn'
  <2> SUFFICES ASSUME NEW p \in Users, response_user'[p].sockfd # 0
               PROVE  conn'[response_user'[p].sockfd].session \in Sessions
    BY <1>18 DEF SlotConn
  <2> QED
    BY <1>1, <1>3, <1>7, <1>13
<1>21. SlotsApart'
  <2>1. \A r \in Users \ {o} : response_user'[r] = response_user[r]
    BY <1>3
  <2>2. \A r \in Users \ {o} : response_user'[r].sockfd # 0 => response_user'[r].sockfd # d
    BY <1>13, <2>1
  <2>3. \A r, s \in Users \ {o} :
            response_user'[r].sockfd = response_user'[s].sockfd /\ response_user'[r].sockfd # 0
                => r = s
    BY <2>1 DEF TableInv, SlotsApart
  <2>4. response_user'[o].sockfd = d
    BY <1>7
  <2> QED
    BY <1>6, <2>2, <2>3, <2>4 DEF SlotsApart
<1>22. SlotServed'
  <2> SUFFICES ASSUME NEW p \in Users, response_user'[p].sockfd # 0, ~Leaving(p)'
               PROVE  \E i \in Sessions : Running(i)' /\ local'[i].user_offset = p
    BY DEF SlotServed
  <2>1. CASE p = o
    <3>1. ~(remove'[0].pc = "find" /\ remove'[0].offset = o)
      BY <2>1 DEF Leaving
    <3>2. local'[N].pc = "round" /\ local'[N].user_offset = o
      BY <1>3, <3>1
    <3> QED
      BY <1>1, <2>1, <3>2 DEF Running
  <2>2. CASE p # o
    <3>1. PICK i \in Sessions : Running(i) /\ local[i].user_offset = p
      BY <1>1, <1>3, <2>2 DEF TableInv, SlotServed, Leaving
    <3> QED
      BY <1>8, <1>10, <1>12, <3>1
  <2> QED
    BY <2>1, <2>2
<1>23. \A e \in Fds \ {d} : conn'[e] = conn[e]
  BY <1>3
<1>24. \A e \in Fds : conn[e].session \in Sessions =>
           e # d /\ e # 0 /\ UsersOf(e) # {} /\ conn[e].session <= thread_count
  <2>1. -1 \notin Sessions
    OBVIOUS
  <2> QED
    BY <1>0, <1>1, <1>3, <1>6, <2>1 DEF TableInv, ConnSlot
<1>25. \A e \in Fds : conn[e].session \in Sessions => UsersOf(e)' # {}
  <2> SUFFICES ASSUME NEW e \in Fds, conn[e].session \in Sessions
               PROVE  UsersOf(e)' # {}
    OBVIOUS
  <2>1. PICK p \in Users : response_user[p].sockfd = e
    BY <1>24 DEF UsersOf
  <2>2. p # o
    BY <1>3, <1>24, <2>1
  <2> QED
    BY <1>3, <2>1, <2>2 DEF UsersOf
<1>26. UsersOf(d)' # {}
  BY <1>7 DEF UsersOf
<1>27. main'.pc = "count" \/ remove'[0].pc # "idle"
  BY <1>3
<1>28. ConnSlot'
  <2>1. conn'[0].session = -1
    BY <1>6, <1>23
  <2>2. ASSUME NEW e \in Fds
        PROVE  /\ conn'[e].gone => conn'[e].session \in Sessions
               /\ conn'[e].session \in Sessions =>
                     /\ UsersOf(e)' # {}
                     /\ \/ conn'[e].session <= thread_count'
                        \/ /\ conn'[e].session = N
                           /\ main'.pc = "count" \/ remove'[0].pc # "idle"
    <3>1. CASE e = d
      BY <1>7, <1>26, <1>27, <3>1
    <3>2. CASE e # d
      <4>1. conn'[e] = conn[e]
        BY <1>23, <3>2
      <4>2. conn[e].gone => conn[e].session \in Sessions
        BY DEF TableInv, ConnSlot
      <4> QED
        BY <1>1, <1>24, <1>25, <4>1, <4>2
    <3> QED
      BY <3>1, <3>2
  <2>3. ASSUME NEW e \in Fds, NEW g \in Fds, conn'[e].session = conn'[g].session,
               conn'[e].session \in Sessions
        PROVE  e = g
    <3>1. CASE e # d /\ g # d
      BY <1>23, <2>3, <3>1 DEF TableInv, ConnSlot
    <3>2. \A h \in Fds \ {d} : conn'[h].session \in Sessions => conn'[h].session # N
      BY <1>5, <1>23, <1>24
    <3> QED
      BY <1>7, <2>3, <3>1, <3>2
  <2> QED
    BY <1>5, <2>1, <2>2, <2>3 DEF ConnSlot
<1>29. Events'
  <2> SUFFICES ASSUME NEW e \in main'.events \ {Listen}
               PROVE  conn'[e].gone /\ \A p \in UsersOf(e)' : ~Leaving(p)'
    BY DEF Events
  <2>1. e \in Fds /\ conn[e].gone
    BY <1>1, <1>4 DEF TableInv, Events
  <2>2. e # d
    BY <1>24, <2>1 DEF TableInv, ConnSlot
  <2>3. o \notin UsersOf(e)'
    BY <1>7, <2>2 DEF UsersOf
  <2>4. \A p \in Users : Leaving(p)' => p = o
    BY <1>18 DEF Leaving
  <2> QED
    BY <1>23, <2>1, <2>2, <2>3, <2>4 DEF UsersOf
<1> QED
  BY <1>14, <1>15, <1>16, <1>17, <1>19, <1>20, <1>21, <1>22, <1>28, <1>29 DEF TableInv
\* The main thread never waits for itself, nor for somebody who waits.
LEMMA MainTerminates ==
    ASSUME TypeOK, BaseInv, TableInv, Terminate(0)
    PROVE  \E i \in Sessions :
              /\ i \in 1 .. thread_count /\ thread[i].user_offset = remove[0].offset
              /\ remove[0].pc = "find"
              /\ \A k \in Sessions \ {i} : thread'[k] = thread[k]
              /\ thread'[i].thread_terminate = TRUE /\ thread'[i].user_offset = thread[i].user_offset
              /\ thread'[i].fp = thread[i].fp /\ thread'[i].read = thread[i].read
              /\ remove'[0].pc = "wait" /\ remove'[0].i = i /\ remove'[0].offset = remove[0].offset
              /\ \A b \in Sessions : remove'[b] = remove[b]
              /\ UNCHANGED <<main, thread_count, local, response_user, conn>>
<1> USE ConstantFacts
<1> DEFINE j == Least(ThreadsOf(remove[0].offset))
<1>1. /\ remove[0].pc = "find" /\ j \in Sessions /\ j \in 1 .. thread_count
      /\ thread[j].user_offset = remove[0].offset
      /\ \A k \in Sessions \ {j} : thread'[k] = thread[k]
      /\ UNCHANGED <<main, thread_count, local, response_user, conn>>
      /\ ~JoinRefused(0, j) =>
            /\ thread'[j].thread_terminate = TRUE /\ thread'[j].user_offset = thread[j].user_offset
            /\ thread'[j].fp = thread[j].fp /\ thread'[j].read = thread[j].read
            /\ remove'[0].pc = "wait" /\ remove'[0].i = j /\ remove'[0].offset = remove[0].offset
            /\ \A b \in Actors \ {0} : remove'[b] = remove[b]
  BY TerminateFacts
<1> HIDE DEF j
<1>2. \A b \in Actors : remove[b].pc # "wait"
  BY <1>1 DEF TableInv, OnlyMainRemoves
<1>3. ~JoinRefused(0, j)
  <2>1. j # 0 /\ j \in Actors
    BY <1>1
  <2> QED
    BY <1>2, <2>1 DEF JoinRefused
<1>4. \A b \in Sessions : b \in Actors \ {0}
  OBVIOUS
<1> QED
  BY <1>1, <1>3, <1>4

LEMMA TerminateTable ==
    ASSUME TypeOK, BaseInv, TableInv, Terminate(0)
    PROVE  TableInv'
<1> USE ConstantFacts
<1>1. PICK i \in Sessions :
              /\ i \in 1 .. thread_count /\ thread[i].user_offset = remove[0].offset
              /\ remove[0].pc = "find"
              /\ \A k \in Sessions \ {i} : thread'[k] = thread[k]
              /\ thread'[i].thread_terminate = TRUE /\ thread'[i].user_offset = thread[i].user_offset
              /\ remove'[0].pc = "wait" /\ remove'[0].i = i /\ remove'[0].offset = remove[0].offset
              /\ \A b \in Sessions : remove'[b] = remove[b]
              /\ UNCHANGED <<main, thread_count, local, response_user, conn>>
  BY MainTerminates
<1>2. \A k \in Sessions : thread'[k].user_offset = thread[k].user_offset
  BY <1>1
<1>3. OnlyMainRemoves'
  BY <1>1 DEF TableInv, OnlyMainRemoves
<1>4. Created' /\ SlotsApart'
  BY <1>1 DEF TableInv, Created, Running, NewThread, SlotsApart
<1>5. SessionConn'
  BY <1>1, <1>2 DEF TableInv, SessionConn, Running, User
<1>6. EntryInUse'
  <2> SUFFICES ASSUME NEW k \in Sessions
               PROVE  /\ k <= thread_count' /\ thread'[k].user_offset # 0 => Running(k)' \/ Joined(k)'
                      /\ Running(k)' /\ thread'[k].thread_terminate => Joined(k)'
    BY DEF EntryInUse
  <2>1. CASE k = i
    BY <1>1, <2>1 DEF Joined
  <2>2. CASE k # i
    BY <1>1, <2>2 DEF TableInv, EntryInUse, Joined, Running
  <2> QED
    BY <2>1, <2>2
<1>7. Waiting'
  BY <1>1 DEF Waiting
<1>8. LeavingSlot'
  BY <1>1 DEF TableInv, LeavingSlot
<1>9. SlotConn'
  BY <1>1 DEF TableInv, SlotConn, Leaving
<1>10. SlotServed'
  BY <1>1 DEF TableInv, SlotServed, Leaving, Running
<1>11. ConnSlot'
  BY <1>1 DEF TableInv, ConnSlot, UsersOf, NewThread
<1>12. Events'
  BY <1>1 DEF TableInv, Events, UsersOf, Leaving
<1> QED
  BY <1>3, <1>4, <1>5, <1>6, <1>7, <1>8, <1>9, <1>10, <1>11, <1>12 DEF TableInv

LEMMA JoinTable ==
    ASSUME TypeOK, BaseInv, TableInv, Join(0)
    PROVE  TableInv'
<1> USE ConstantFacts
<1>1. PICK i \in Sessions : i = remove[0].i
  BY JoinFacts, TableTypes DEF TableInv, Waiting
<1>2. /\ remove[0].pc = "wait" /\ local[i].pc = "done"
      /\ thread'[i] = Entry(0) /\ \A k \in Sessions \ {i} : thread'[k] = thread[k]
      /\ remove'[0].pc = "find" /\ remove'[0].offset = remove[0].offset
      /\ UNCHANGED <<main, thread_count, local, response_user, conn>>
  BY <1>1, JoinFacts
<1>3. \A b \in Sessions : remove'[b] = remove[b]
  <2>1. \A b \in Sessions : b \in Actors \ {0}
    OBVIOUS
  <2>2. \A b \in Actors \ {0} : remove'[b] = remove[b]
    BY JoinFacts
  <2> QED
    BY <2>1, <2>2
<1>4. /\ thread'[i].user_offset = 0
      /\ \A k \in Sessions : Running(k) => k # i
      /\ \A k \in Sessions : Running(k)' <=> Running(k)
  BY <1>2, EntryFacts DEF Running
<1>5. OnlyMainRemoves'
  BY <1>2, <1>3 DEF TableInv, OnlyMainRemoves
<1>6. Created' /\ SlotsApart' /\ Waiting'
  BY <1>2 DEF TableInv, Created, Running, NewThread, SlotsApart, Waiting
<1>7. SessionConn'
  BY <1>2, <1>4 DEF TableInv, SessionConn, User
<1>8. EntryInUse'
  <2> SUFFICES ASSUME NEW k \in Sessions
               PROVE  /\ k <= thread_count' /\ thread'[k].user_offset # 0 => Running(k)'
                      /\ Running(k)' => ~thread'[k].thread_terminate
    BY DEF EntryInUse
  <2>1. CASE k = i
    BY <1>4, <2>1
  <2>2. CASE k # i
    BY <1>1, <1>2, <1>4, <2>2 DEF TableInv, EntryInUse, Joined
  <2> QED
    BY <2>1, <2>2
<1>9. LeavingSlot'
  BY <1>2 DEF TableInv, LeavingSlot
<1>10. SlotConn'
  BY <1>2 DEF TableInv, SlotConn, Leaving
<1>11. SlotServed'
  BY <1>2 DEF TableInv, SlotServed, Leaving, Running
<1>12. ConnSlot'
  BY <1>2 DEF TableInv, ConnSlot, UsersOf, NewThread
<1>13. Events'
  BY <1>2 DEF TableInv, Events, UsersOf, Leaving
<1> QED
  BY <1>5, <1>6, <1>7, <1>8, <1>9, <1>10, <1>11, <1>12, <1>13 DEF TableInv

\* When no counted thread of the slot is left, no running thread has its descriptor.
LEMMA CloseConn ==
    ASSUME TypeOK, BaseInv, TableInv, CloseUser(0)
    PROVE  /\ remove[0].pc = "find" /\ remove[0].offset \in Users
           /\ response_user[remove[0].offset].sockfd \in Fds \ {0}
           /\ \A i \in Sessions : Running(i) =>
                 User(i).sockfd # response_user[remove[0].offset].sockfd
<1> USE ConstantFacts
<1>1. /\ remove[0].pc = "find" /\ ThreadsOf(remove[0].offset) = {} /\ main.pc = "loop"
      /\ remove[0].offset \in Users /\ response_user[remove[0].offset].sockfd \in Fds
  BY CloseFacts DEF TableInv, OnlyMainRemoves
<1>2. response_user[remove[0].offset].sockfd # 0
  BY <1>1 DEF TableInv, LeavingSlot
<1>3. ASSUME NEW i \in Sessions, Running(i),
             User(i).sockfd = response_user[remove[0].offset].sockfd
      PROVE  FALSE
  <2>1. /\ local[i].user_offset \in Users /\ thread[i].user_offset = local[i].user_offset
        /\ User(i) = response_user[local[i].user_offset]
    BY <1>3, RunningFacts
  <2>2. local[i].user_offset = remove[0].offset
    BY <1>1, <1>2, <1>3, <2>1 DEF TableInv, SlotsApart
  <2>3. i \in 1 .. thread_count
    <3>1. i <= thread_count
      BY <1>1, <1>3 DEF TableInv, Created, Running
    <3> QED
      BY <3>1, TableTypes
  <2> QED
    BY <1>1, <2>1, <2>2, <2>3 DEF ThreadsOf
<1> QED
  BY <1>1, <1>2, <1>3

LEMMA CloseTable ==
    ASSUME TypeOK, BaseInv, TableInv, CloseUser(0)
    PROVE  TableInv'
<1> USE ConstantFacts
<1>1. PICK o \in Users : o = remove[0].offset
  BY CloseConn
<1>2. PICK d \in Fds : d = response_user[o].sockfd
  BY <1>1, CloseConn
<1>3. /\ remove[0].pc = "find" /\ d # 0
      /\ \A i \in Sessions : Running(i) => User(i).sockfd # d
  BY <1>1, <1>2, CloseConn
<1>4. /\ conn'[d] = Closed /\ \A e \in Fds \ {d} : conn'[e] = conn[e]
      /\ remove'[0].pc = "clear" /\ remove'[0].offset = o
      /\ UNCHANGED <<main, thread_count, thread, local, response_user>>
  BY <1>1, <1>2, CloseFacts
<1>5. \A b \in Sessions : remove'[b] = remove[b]
  <2>1. \A b \in Sessions : b \in Actors \ {0}
    OBVIOUS
  <2> QED
    BY <2>1, CloseFacts
<1>6. conn'[d].session = 0 /\ ~conn'[d].gone
  BY <1>4, SocketFacts
<1>7. \A p \in Users : Leaving(p) <=> p = o
  BY <1>1, <1>3 DEF Leaving
<1>8. \A p \in Users : Leaving(p)' <=> p = o
  BY <1>4 DEF Leaving
<1>9. OnlyMainRemoves'
  BY <1>3, <1>4, <1>5 DEF TableInv, OnlyMainRemoves
<1>10. Created' /\ SlotsApart'
  BY <1>4 DEF TableInv, Created, Running, NewThread, SlotsApart
<1>11. Waiting' /\ LeavingSlot'
  BY <1>2, <1>3, <1>4 DEF Waiting, LeavingSlot
<1>12. SessionConn'
  <2> SUFFICES ASSUME NEW i \in Sessions, Running(i)'
               PROVE  /\ thread'[i].user_offset = local'[i].user_offset
                      /\ conn'[User(i)'.sockfd].session = i
                      /\ conn'[User(i)'.sockfd].client = User(i)'.login
    BY DEF SessionConn
  <2>1. Running(i) /\ User(i)' = User(i)
    BY <1>4 DEF Running, User
  <2>2. conn'[User(i).sockfd] = conn[User(i).sockfd]
    BY <1>3, <1>4, <2>1, RunningFacts
  <2> QED
    BY <1>4, <2>1, <2>2, RunningFacts
<1>13. EntryInUse'
  BY <1>3, <1>4 DEF TableInv, EntryInUse, Joined, Running
<1>14. SlotConn'
  <2> SUFFICES ASSUME NEW p \in Users, response_user'[p].sockfd # 0
               PROVE  IF Leaving(p)' /\ remove'[0].pc = "clear"
                      THEN conn'[response_user'[p].sockfd].session = 0
                      ELSE conn'[response_user'[p].sockfd].session \in Sessions
    BY DEF SlotConn
  <2>1. CASE p = o
    BY <1>2, <1>4, <1>6, <1>8, <2>1
  <2>2. CASE p # o
    <3>1. conn[response_user[p].sockfd].session \in Sessions
      BY <1>4, <1>7, <2>2 DEF TableInv, SlotConn
    <3>2. response_user[p].sockfd \in Fds \ {d}
      <4>1. response_user[p].sockfd # d
        BY <1>2, <1>3, <2>2 DEF TableInv, SlotsApart
      <4> QED
        BY <4>1, TableTypes
    <3> QED
      BY <1>4, <1>8, <2>2, <3>1, <3>2
  <2> QED
    BY <2>1, <2>2
<1>15. SlotServed'
  BY <1>4, <1>7, <1>8 DEF TableInv, SlotServed, Running
<1>16. ConnSlot'
  <2>1. conn'[0].session = -1
    BY <1>3, <1>4 DEF TableInv, ConnSlot
  <2>2. ASSUME NEW e \in Fds
        PROVE  /\ conn'[e].gone => conn'[e].session \in Sessions
               /\ conn'[e].session \in Sessions =>
                     /\ UsersOf(e)' # {}
                     /\ \/ conn'[e].session <= thread_count'
                        \/ /\ conn'[e].session = NewThread'
                           /\ main'.pc = "count" \/ remove'[0].pc # "idle"
    <3>1. CASE e = d
      BY <1>6, <3>1
    <3>2. CASE e # d
      <4>1. conn'[e] = conn[e] /\ UsersOf(e)' = UsersOf(e) /\ NewThread' = NewThread
        BY <1>4, <3>2 DEF UsersOf, NewThread
      <4> QED
        BY <1>4, <4>1 DEF TableInv, ConnSlot
    <3> QED
      BY <3>1, <3>2
  <2>3. ASSUME NEW e \in Fds, NEW g \in Fds, conn'[e].session = conn'[g].session,
               conn'[e].session \in Sessions
        PROVE  e = g
    <3>1. e # d /\ g # d
      BY <1>6, <2>3
    <3> QED
      BY <1>4, <2>3, <3>1 DEF TableInv, ConnSlot
  <2> QED
    BY <2>1, <2>2, <2>3 DEF ConnSlot
<1>17. Events'
  <2> SUFFICES ASSUME NEW e \in main'.events \ {Listen}
               PROVE  conn'[e].gone /\ \A p \in UsersOf(e)' : ~Leaving(p)'
    BY DEF Events
  <2>1. e \in Fds /\ conn[e].gone /\ \A p \in UsersOf(e) : ~Leaving(p)
    BY <1>4, TableTypes DEF TableInv, Events
  <2>2. e # d
    BY <1>2, <1>7, <2>1 DEF UsersOf
  <2> QED
    BY <1>4, <1>7, <1>8, <2>1, <2>2 DEF UsersOf
<1> QED
  BY <1>9, <1>10, <1>11, <1>12, <1>13, <1>14, <1>15, <1>16, <1>17 DEF TableInv

LEMMA ClearTable ==
    ASSUME TypeOK, BaseInv, TableInv, ClearUser(0)
    PROVE  TableInv' /\ \A i \in Sessions : Running(i) => User(i)' = User(i)
<1> USE ConstantFacts
<1>1. PICK o \in Users : o = remove[0].offset
  BY ClearFacts
<1>2. /\ remove[0].pc = "clear" /\ remove'[0].pc = "idle"
      /\ response_user'[o] = NoUser
      /\ \A p \in Users \ {o} : response_user'[p] = response_user[p]
      /\ UNCHANGED <<main, thread_count, thread, local, conn>>
  BY <1>1, ClearFacts, NotCalledFacts
<1>3. \A b \in Sessions : remove'[b] = remove[b]
  <2>1. \A b \in Sessions : b \in Actors \ {0}
    OBVIOUS
  <2> QED
    BY <2>1, ClearFacts
<1>4. response_user'[o].sockfd = 0 /\ response_user[o].sockfd # 0 /\ main.pc = "loop"
  BY <1>1, <1>2, UserFacts DEF TableInv, LeavingSlot, OnlyMainRemoves
<1>5. \A p \in Users : (Leaving(p) <=> p = o) /\ ~Leaving(p)'
  BY <1>1, <1>2 DEF Leaving
<1>6. conn[response_user[o].sockfd].session = 0
  BY <1>2, <1>4, <1>5 DEF TableInv, SlotConn
<1>7. ASSUME NEW i \in Sessions, Running(i)
      PROVE  local[i].user_offset \in Users \ {o} /\ User(i)' = User(i)
  <2>1. local[i].user_offset \in Users \ {o}
    BY <1>6, <1>7, RunningFacts
  <2> QED
    BY <1>2, <2>1 DEF User
<1>8. OnlyMainRemoves' /\ Waiting' /\ LeavingSlot'
  BY <1>2, <1>3 DEF TableInv, OnlyMainRemoves, Waiting, LeavingSlot
<1>9. Created'
  BY <1>2 DEF TableInv, Created, Running, NewThread
<1>10. SlotsApart'
  <2>1. \A r, s \in Users \ {o} :
            response_user'[r].sockfd = response_user'[s].sockfd /\ response_user'[r].sockfd # 0
                => r = s
    BY <1>2 DEF TableInv, SlotsApart
  <2> QED
    BY <1>4, <2>1 DEF SlotsApart
<1>11. SessionConn'
  BY <1>2, <1>7 DEF TableInv, SessionConn, Running
<1>12. EntryInUse'
  BY <1>2 DEF TableInv, EntryInUse, Joined, Running
<1>13. SlotConn'
  BY <1>2, <1>4, <1>5 DEF TableInv, SlotConn
<1>14. SlotServed'
  BY <1>2, <1>4, <1>5 DEF TableInv, SlotServed, Running
<1>15. ConnSlot'
  <2>1. ASSUME NEW e \in Fds, conn[e].session \in Sessions
        PROVE  UsersOf(e)' # {} /\ conn[e].session <= thread_count
    <3>1. PICK p \in Users : response_user[p].sockfd = e
      <4>1. UsersOf(e) # {}
        BY <2>1 DEF TableInv, ConnSlot
      <4> QED
        BY <4>1 DEF UsersOf
    <3>2. p # o /\ e # 0
      <4>1. conn[0].session = -1
        BY DEF TableInv, ConnSlot
      <4> QED
        BY <1>6, <2>1, <3>1, <4>1
    <3>3. PICK i \in Sessions : Running(i) /\ local[i].user_offset = p
      BY <1>5, <3>1, <3>2 DEF TableInv, SlotServed
    <3>4. conn[e].session = i
      BY <3>1, <3>3, RunningFacts
    <3>5. i <= thread_count
      BY <1>4, <3>3 DEF TableInv, Created, Running
    <3>6. p \in UsersOf(e)'
      BY <1>2, <3>1, <3>2 DEF UsersOf
    <3> QED
      BY <3>4, <3>5, <3>6
  <2>2. conn'[0].session = -1
    BY <1>2 DEF TableInv, ConnSlot
  <2>3. \A e \in Fds : conn'[e].gone => conn'[e].session \in Sessions
    BY <1>2 DEF TableInv, ConnSlot
  <2>4. \A d, e \in Fds :
            conn'[d].session = conn'[e].session /\ conn'[d].session \in Sessions => d = e
    BY <1>2 DEF TableInv, ConnSlot
  <2> QED
    BY <1>2, <2>1, <2>2, <2>3, <2>4 DEF ConnSlot
<1>16. Events'
  <2>1. \A e \in main'.events \ {Listen} : conn'[e].gone
    BY <1>2 DEF TableInv, Events
  <2>2. \A e : UsersOf(e)' \subseteq Users
    BY DEF UsersOf
  <2> QED
    BY <1>5, <2>1, <2>2 DEF Events
<1> QED
  BY <1>7, <1>8, <1>9, <1>10, <1>11, <1>12, <1>13, <1>14, <1>15, <1>16 DEF TableInv
----------------------------------------------------------------------------
(* The lines, as long as no session thread has removed its own user        *)

\* A line is read: what was received is within what was read,
LEMMA ReadWithin ==
    ASSUME NEW got \in Seq(Files \X LineNums),
           NEW read \in [Files -> 0 .. MaxLines], NEW next \in [Files -> 0 .. MaxLines],
           NEW f \in Files, \A g \in Files : next[g] = IF g = f THEN read[f] + 1 ELSE read[g],
           Within(got, read)
    PROVE  Within(got, next)
<1> USE ConstantFacts
<1>0. \A g \in Files : read[g] \in Nat /\ next[g] \in Nat /\ read[g] <= next[g]
  OBVIOUS
<1> SUFFICES ASSUME NEW k \in DOMAIN got
             PROVE  got[k][2] <= next[got[k][1]]
  BY DEF Within
<1>1. got[k] \in Files \X LineNums
  OBVIOUS
<1>2. got[k][1] \in Files /\ got[k][2] \in Nat
  BY <1>1
<1>3. got[k][2] <= read[got[k][1]]
  BY DEF Within
<1> QED
  BY <1>0, <1>2, <1>3

\* and is all of it, if the service does not want the line.
LEMMA PassLine ==
    ASSUME NEW l, NEW got,
           NEW read \in [Files -> 0 .. MaxLines], NEW next \in [Files -> 0 .. MaxLines],
           NEW f \in Files, \A g \in Files : next[g] = IF g = f THEN read[f] + 1 ELSE read[g],
           Complete(l, got, read), ~Wants(l, f, next[f])
    PROVE  Complete(l, got, next)
<1> USE ConstantFacts
<1>0. \A g \in Files : read[g] \in Nat /\ next[g] \in Nat /\ read[g] <= next[g]
  OBVIOUS
<1> SUFFICES ASSUME NEW g \in Files, NEW n \in 1 .. next[g], Wants(l, g, n)
             PROVE  \E k \in DOMAIN got : got[k] = <<g, n>>
  BY DEF Complete
<1>1. n \in 1 .. read[g]
  <2>1. CASE g # f
    BY <1>0, <2>1
  <2>2. CASE g = f
    <3>1. n # next[f]
      BY <2>2
    <3> QED
      BY <1>0, <2>2, <3>1
  <2> QED
    BY <2>1, <2>2
<1> QED
  BY <1>1 DEF Complete

\* A line that it wants is read and sent.
LEMMA AppendLine ==
    ASSUME NEW l, NEW got \in Seq(Files \X LineNums),
           NEW read \in [Files -> 0 .. MaxLines], NEW next \in [Files -> 0 .. MaxLines],
           NEW f \in Files, \A g \in Files : next[g] = IF g = f THEN read[f] + 1 ELSE read[g],
           NEW n \in LineNums, n = next[f],
           Within(got, read), Complete(l, got, read), InOrder(l, got),
           GroupMatches(l, f), Wants(l, f, n)
    PROVE  LET more == Append(got, <<f, n>>)
           IN  Within(more, next) /\ Complete(l, more, next) /\ InOrder(l, more)
<1> USE ConstantFacts
<1> DEFINE more == Append(got, <<f, n>>)
<1>1. \A g \in Files : read[g] \in Nat /\ next[g] \in Nat /\ read[g] <= next[g]
  OBVIOUS
<1>2. \A k \in DOMAIN got : got[k] \in Files \X LineNums
  OBVIOUS
<1>3. \A k \in DOMAIN got : /\ got[k][1] \in Files /\ got[k][2] \in Nat
                            /\ got[k][2] <= read[got[k][1]]
  <2>1. \A k \in DOMAIN got : got[k][1] \in Files /\ got[k][2] \in Nat
    BY <1>2
  <2> QED
    BY <2>1 DEF Within
<1>4. /\ Len(got) \in Nat /\ DOMAIN got = 1 .. Len(got) /\ DOMAIN more = 1 .. Len(got) + 1
      /\ \A k \in 1 .. Len(got) : more[k] = got[k]
      /\ more[Len(got) + 1] = <<f, n>>
  OBVIOUS
<1> HIDE DEF more
<1>5. Within(more, next)
  <2> SUFFICES ASSUME NEW k \in DOMAIN more
               PROVE  more[k][2] <= next[more[k][1]]
    BY DEF Within
  <2>1. CASE k \in DOMAIN got
    <3>1. more[k] = got[k]
      BY <1>4, <2>1
    <3> QED
      BY <1>1, <1>3, <2>1, <3>1
  <2>2. CASE k = Len(got) + 1
    BY <1>4, <2>2
  <2> QED
    BY <1>4, <2>1, <2>2
<1>6. Complete(l, more, next)
  <2> SUFFICES ASSUME NEW g \in Files, NEW m \in 1 .. next[g], Wants(l, g, m)
               PROVE  \E k \in DOMAIN more : more[k] = <<g, m>>
    BY DEF Complete
  <2>1. CASE g = f /\ m = n
    BY <1>4, <2>1
  <2>2. CASE ~(g = f /\ m = n)
    <3>1. m \in 1 .. read[g]
      <4>1. CASE g # f
        BY <1>1, <4>1
      <4>2. CASE g = f
        BY <1>1, <2>2, <4>2
      <4> QED
        BY <4>1, <4>2
    <3>2. PICK k \in DOMAIN got : got[k] = <<g, m>>
      BY <3>1 DEF Complete
    <3>3. k \in DOMAIN more /\ more[k] = got[k]
      BY <1>4
    <3> QED
      BY <3>2, <3>3
  <2> QED
    BY <2>1, <2>2
<1>7. InOrder(l, more)
  <2> SUFFICES ASSUME NEW k \in DOMAIN more
               PROVE  /\ GroupMatches(l, more[k][1]) /\ Wants(l, more[k][1], more[k][2])
                      /\ \A j \in 1 .. k - 1 :
                            more[j][1] = more[k][1] => more[j][2] < more[k][2]
    BY DEF InOrder
  <2>1. CASE k \in DOMAIN got
    <3>1. more[k] = got[k]
      BY <1>4, <2>1
    <3>2. \A j \in 1 .. k - 1 : j \in 1 .. Len(got)
      BY <1>4, <2>1
    <3>3. \A j \in 1 .. k - 1 : more[j] = got[j]
      BY <1>4, <3>2
    <3> QED
      BY <2>1, <3>1, <3>3 DEF InOrder
  <2>2. CASE k = Len(got) + 1
    <3>1. more[k][1] = f /\ more[k][2] = n
      BY <1>4, <2>2
    <3>2. ASSUME NEW j \in 1 .. k - 1, more[j][1] = f
          PROVE  more[j][2] < n
      <4>1. j \in DOMAIN got /\ more[j] = got[j]
        BY <1>4, <2>2
      <4>2. got[j][2] \in Nat /\ got[j][2] <= read[f]
        BY <1>3, <3>2, <4>1
      <4>3. n = read[f] + 1 /\ read[f] \in Nat
        BY <1>1
      <4> QED
        BY <4>1, <4>2, <4>3
    <3> QED
      BY <3>1, <3>2
  <2> QED
    BY <1>4, <2>1, <2>2
<1> QED
  BY <1>5, <1>6, <1>7 DEF more

\* No line is read or received, but what was opened or received may be forgotten.
LEMMA LinesKept ==
    ASSUME LinesInv,
           \A i \in Sessions : Running(i)' =>
               /\ Running(i) /\ User(i)' = User(i)
               /\ conn'[User(i).sockfd].got = conn[User(i).sockfd].got
               /\ thread'[i].read = thread[i].read
               /\ \A f \in thread'[i].fp :
                     f \in thread[i].fp \/ GroupMatches(User(i).login, f),
           \A d \in Fds :
               \/ conn'[d].session \notin Sessions /\ conn'[d].got = <<>>
               \/ /\ conn'[d].session = conn[d].session /\ conn'[d].client = conn[d].client
                  /\ conn'[d].got = conn[d].got
                  /\ conn[d].gone => conn'[d].gone,
           \A i \in Sessions :
               thread'[i].read = thread[i].read \/ \A f \in Files : thread'[i].read[f] = 0
    PROVE  LinesInv'
<1>1. SentOfRead'
  <2> SUFFICES ASSUME NEW i \in Sessions, Running(i)'
               PROVE  /\ \A f \in thread'[i].fp : GroupMatches(User(i)'.login, f)
                      /\ Within(conn'[User(i)'.sockfd].got, thread'[i].read)
    BY DEF SentOfRead
  <2>1. /\ Running(i) /\ User(i)' = User(i)
        /\ conn'[User(i).sockfd].got = conn[User(i).sockfd].got
        /\ thread'[i].read = thread[i].read
        /\ \A f \in thread'[i].fp : f \in thread[i].fp \/ GroupMatches(User(i).login, f)
    OBVIOUS
  <2>2. /\ \A f \in thread[i].fp : GroupMatches(User(i).login, f)
        /\ Within(conn[User(i).sockfd].got, thread[i].read)
    BY <2>1 DEF LinesInv, SentOfRead
  <2> QED
    BY <2>1, <2>2
<1>2. ReceivedInOrder'
  <2> SUFFICES ASSUME NEW d \in Fds
               PROVE  InOrder(conn'[d].client, conn'[d].got)
    BY DEF ReceivedInOrder
  <2>1. \A l : InOrder(l, <<>>)
    BY DEF InOrder
  <2>2. InOrder(conn[d].client, conn[d].got)
    BY DEF LinesInv, ReceivedInOrder
  <2> QED
    BY <2>1, <2>2
<1>3. ReceivedAll'
  <2> SUFFICES ASSUME NEW d \in Fds, conn'[d].session \in Sessions, ~conn'[d].gone
               PROVE  Complete(conn'[d].client, conn'[d].got, thread'[conn'[d].session].read)
    BY DEF ReceivedAll
  <2>1. /\ conn'[d].session = conn[d].session /\ conn'[d].client = conn[d].client
        /\ conn'[d].got = conn[d].got /\ ~conn[d].gone
    OBVIOUS
  <2>2. Complete(conn[d].client, conn[d].got, thread[conn[d].session].read)
    BY <2>1 DEF LinesInv, ReceivedAll
  <2>3. CASE thread'[conn[d].session].read = thread[conn[d].session].read
    BY <2>1, <2>2, <2>3
  <2>4. CASE \A f \in Files : thread'[conn[d].session].read[f] = 0
    BY <2>1, <2>4 DEF Complete
  <2> QED
    BY <2>1, <2>3, <2>4
<1> QED
  BY <1>1, <1>2, <1>3 DEF LinesInv

LEMMA AcceptLines ==
    ASSUME TypeOK, BaseInv, TableInv, LinesInv, NEW l \in Logins, AcceptUser(l)
    PROVE  LinesInv'
<1> USE ConstantFacts
<1>1. PICK N \in Sessions : N = NewThread
  BY AcceptFacts
<1>2. PICK d \in Fds : \E o \in Users :
                 /\ conn[d].session = 0 /\ response_user[o].sockfd = 0
                 /\ response_user'[o] = NewUser(d, l)
                 /\ \A p \in Users \ {o} : response_user'[p] = response_user[p]
                 /\ conn'[d] = Socket(NewThread, l) /\ \A e \in Fds \ {d} : conn'[e] = conn[e]
                 /\ thread'[NewThread] = Entry(o)
                 /\ \A i \in Sessions \ {NewThread} : thread'[i] = thread[i]
                 /\ \/ /\ local'[NewThread].user_offset = o
                       /\ \A i \in Sessions \ {NewThread} : local'[i] = local[i]
                    \/ local' = local
  BY AcceptFacts
<1>3. PICK o \in Users :
                 /\ conn[d].session = 0 /\ response_user[o].sockfd = 0
                 /\ response_user'[o] = NewUser(d, l)
                 /\ \A p \in Users \ {o} : response_user'[p] = response_user[p]
                 /\ conn'[d] = Socket(N, l) /\ \A e \in Fds \ {d} : conn'[e] = conn[e]
                 /\ thread'[N] = Entry(o) /\ \A i \in Sessions \ {N} : thread'[i] = thread[i]
                 /\ \/ /\ local'[N].user_offset = o
                       /\ \A i \in Sessions \ {N} : local'[i] = local[i]
                    \/ local' = local
  BY <1>1, <1>2
<1>4. /\ conn'[d].got = <<>> /\ conn'[d].session = N
      /\ thread'[N].fp = {} /\ \A f \in Files : thread'[N].read[f] = 0
  BY <1>3, SocketFacts, EntryFacts
<1>5. main.pc = "loop" /\ remove[0].pc = "idle" /\ thread_count \in Nat /\ N = thread_count + 1
  BY <1>1, AcceptFacts, TableTypes DEF NewThread
<1>6. ~Running(N)
  BY <1>5 DEF TableInv, Created, Running
<1>7. \A i \in Sessions \ {N} : local'[i] = local[i] /\ thread'[i] = thread[i]
  BY <1>3
<1>8. Running(N)' => local'[N].user_offset = o
  BY <1>3, <1>6 DEF Running
<1>9. SentOfRead'
  <2> SUFFICES ASSUME NEW i \in Sessions, Running(i)'
               PROVE  /\ \A f \in thread'[i].fp : GroupMatches(User(i)'.login, f)
                      /\ Within(conn'[User(i)'.sockfd].got, thread'[i].read)
    BY DEF SentOfRead
  <2>1. CASE i = N
    <3>1. User(i)'.sockfd = d
      BY <1>3, <1>8, <2>1 DEF User, NewUser
    <3> QED
      BY <1>4, <2>1, <3>1 DEF Within
  <2>2. CASE i # N
    <3>1. Running(i)
      BY <1>7, <2>2 DEF Running
    <3>2. local[i].user_offset \in Users \ {o} /\ User(i).sockfd \in Fds \ {d}
      BY <1>3, <3>1, RunningFacts
    <3>3. User(i)' = User(i)
      BY <1>3, <1>7, <2>2, <3>2 DEF User
    <3>4. conn'[User(i).sockfd] = conn[User(i).sockfd]
      BY <1>3, <3>2
    <3>5. /\ \A f \in thread[i].fp : GroupMatches(User(i).login, f)
          /\ Within(conn[User(i).sockfd].got, thread[i].read)
      BY <3>1 DEF LinesInv, SentOfRead
    <3> QED
      BY <1>7, <2>2, <3>3, <3>4, <3>5
  <2> QED
    BY <2>1, <2>2
<1>10. ReceivedInOrder'
  <2> SUFFICES ASSUME NEW e \in Fds
               PROVE  InOrder(conn'[e].client, conn'[e].got)
    BY DEF ReceivedInOrder
  <2>1. CASE e = d
    BY <1>4, <2>1 DEF InOrder
  <2>2. CASE e # d
    BY <1>3, <2>2 DEF LinesInv, ReceivedInOrder
  <2> QED
    BY <2>1, <2>2
<1>11. ReceivedAll'
  <2> SUFFICES ASSUME NEW e \in Fds, conn'[e].session \in Sessions, ~conn'[e].gone
               PROVE  Complete(conn'[e].client, conn'[e].got, thread'[conn'[e].session].read)
    BY DEF ReceivedAll
  <2>1. CASE e = d
    BY <1>4, <2>1 DEF Complete
  <2>2. CASE e # d
    <3>1. conn'[e] = conn[e]
      BY <1>3, <2>2
    <3>2. conn[e].session \in Sessions \ {N}
      BY <1>5, <3>1 DEF TableInv, ConnSlot
    <3>3. Complete(conn[e].client, conn[e].got, thread[conn[e].session].read)
      BY <3>1, <3>2 DEF LinesInv, ReceivedAll
    <3> QED
      BY <1>7, <3>1, <3>2, <3>3
  <2> QED
    BY <2>1, <2>2
<1> QED
  BY <1>9, <1>10, <1>11 DEF LinesInv
\* Thread i reads a line: it is of the descriptor of its slot, and that is its own.
LEMMA ReadLineFacts ==
    ASSUME TypeOK, BaseInv, TableInv, NEW i \in Sessions, NEW f \in Files, ReadLine(i, f)
    PROVE  \E d \in Fds :
              /\ d = User(i).sockfd /\ conn[d].session = i /\ conn[d].client = User(i).login
              /\ \A k \in Sessions \ {i} : Running(k) => User(k).sockfd \in Fds \ {d}
              /\ \A e \in Fds \ {d} : conn[e].session # i
              /\ \A k \in Sessions : Running(k)' => Running(k) /\ User(k)' = User(k)
              /\ thread[i].read \in [Files -> 0 .. MaxLines]
              /\ thread'[i].read \in [Files -> 0 .. MaxLines]
              /\ \A g \in Files : thread'[i].read[g] = IF g = f THEN thread[i].read[f] + 1
                                                               ELSE thread[i].read[g]
              /\ NextLine(i, f) \in LineNums /\ NextLine(i, f) = thread'[i].read[f]
              /\ f \in thread[i].fp /\ thread'[i].fp = thread[i].fp
              /\ \A k \in Sessions \ {i} : thread'[k] = thread[k]
              /\ conn[d].got \in Seq(Files \X LineNums)
<1>1. Running(i)
  BY ReadFacts DEF Running
<1>2. PICK d \in Fds : d = User(i).sockfd
  BY ReadFacts
<1>3. conn[d].session = i /\ conn[d].client = User(i).login
  BY <1>1, <1>2, RunningFacts
<1>4. \A k \in Sessions \ {i} : Running(k) => User(k).sockfd \in Fds \ {d}
  BY <1>3, RunningFacts
<1>5. \A e \in Fds \ {d} : conn[e].session # i
  BY <1>3 DEF TableInv, ConnSlot
<1>6. \A k \in Sessions : Running(k)' => Running(k) /\ User(k)' = User(k)
  <2> SUFFICES ASSUME NEW k \in Sessions, Running(k)'
               PROVE  Running(k) /\ User(k)' = User(k)
    OBVIOUS
  <2>1. response_user' = response_user /\ local'[k].pc = local[k].pc
        /\ local'[k].user_offset = local[k].user_offset
    BY ReadFacts
  <2> QED
    BY <2>1 DEF Running, User
<1>7. thread[i].read \in [Files -> 0 .. MaxLines] /\ thread'[i].read \in [Files -> 0 .. MaxLines]
  <2>1. thread[i] \in EntryType /\ thread'[i] \in EntryType
    BY TypeParts, ReadFacts
  <2> QED
    BY <2>1, EntryTypeFacts
<1>8. /\ \A g \in Files : thread'[i].read[g] = IF g = f THEN thread[i].read[f] + 1
                                                        ELSE thread[i].read[g]
      /\ NextLine(i, f) \in LineNums /\ NextLine(i, f) = thread'[i].read[f]
  BY ReadFacts DEF NextLine
<1>9. conn[d].got \in Seq(Files \X LineNums)
  BY TypeParts, ConnFacts
<1>10. /\ f \in thread[i].fp /\ thread'[i].fp = thread[i].fp
       /\ \A k \in Sessions \ {i} : thread'[k] = thread[k]
  BY ReadFacts
<1> QED
  BY <1>2, <1>3, <1>4, <1>5, <1>6, <1>7, <1>8, <1>9, <1>10

LEMMA SkipLines ==
    ASSUME TypeOK, BaseInv, TableInv, LinesInv, NEW i \in Sessions, NEW f \in Files,
           SkipLine(i, f)
    PROVE  LinesInv'
<1>1. ReadLine(i, f) /\ ~Wants(User(i).login, f, NextLine(i, f)) /\ conn' = conn
  BY DEF SkipLine
<1>2. PICK d \in Fds :
              /\ d = User(i).sockfd /\ conn[d].session = i /\ conn[d].client = User(i).login
              /\ \A e \in Fds \ {d} : conn[e].session # i
              /\ \A k \in Sessions : Running(k)' => Running(k) /\ User(k)' = User(k)
              /\ thread[i].read \in [Files -> 0 .. MaxLines]
              /\ thread'[i].read \in [Files -> 0 .. MaxLines]
              /\ \A g \in Files : thread'[i].read[g] = IF g = f THEN thread[i].read[f] + 1
                                                               ELSE thread[i].read[g]
              /\ NextLine(i, f) = thread'[i].read[f]
              /\ thread'[i].fp = thread[i].fp
              /\ \A k \in Sessions \ {i} : thread'[k] = thread[k]
              /\ conn[d].got \in Seq(Files \X LineNums)
  BY <1>1, ReadLineFacts
<1>3. SentOfRead'
  <2> SUFFICES ASSUME NEW k \in Sessions, Running(k)'
               PROVE  /\ \A g \in thread'[k].fp : GroupMatches(User(k)'.login, g)
                      /\ Within(conn'[User(k)'.sockfd].got, thread'[k].read)
    BY DEF SentOfRead
  <2>1. Running(k) /\ User(k)' = User(k)
    BY <1>2
  <2>2. /\ \A g \in thread[k].fp : GroupMatches(User(k).login, g)
        /\ Within(conn[User(k).sockfd].got, thread[k].read)
    BY <2>1 DEF LinesInv, SentOfRead
  <2>3. CASE k = i
    <3>1. Within(conn[d].got, thread'[i].read)
      <4>1. /\ conn[d].got \in Seq(Files \X LineNums)
            /\ thread[i].read \in [Files -> 0 .. MaxLines]
            /\ thread'[i].read \in [Files -> 0 .. MaxLines]
            /\ \A g \in Files : thread'[i].read[g] = IF g = f THEN thread[i].read[f] + 1
                                                             ELSE thread[i].read[g]
        BY <1>2
      <4>2. Within(conn[d].got, thread[i].read)
        BY <1>2, <2>2, <2>3
      <4>3. PICK got \in Seq(Files \X LineNums) : got = conn[d].got
        BY <4>1
      <4>4. PICK read \in [Files -> 0 .. MaxLines] : read = thread[i].read
        BY <4>1
      <4>5. PICK next \in [Files -> 0 .. MaxLines] : next = thread'[i].read
        BY <4>1
      <4>6. /\ \A g \in Files : next[g] = IF g = f THEN read[f] + 1 ELSE read[g]
            /\ Within(got, read)
        BY <4>1, <4>2, <4>3, <4>4, <4>5
      <4>7. Within(got, next)
        BY <4>6, ReadWithin
      <4> QED
        BY <4>3, <4>5, <4>7
    <3> QED
      BY <1>1, <1>2, <2>1, <2>2, <2>3, <3>1
  <2>4. CASE k # i
    BY <1>1, <1>2, <2>1, <2>2, <2>4
  <2> QED
    BY <2>3, <2>4
<1>4. ReceivedInOrder'
  BY <1>1 DEF LinesInv, ReceivedInOrder
<1>5. ReceivedAll'
  <2> SUFFICES ASSUME NEW e \in Fds, conn[e].session \in Sessions, ~conn[e].gone
               PROVE  Complete(conn[e].client, conn[e].got, thread'[conn[e].session].read)
    BY <1>1 DEF ReceivedAll
  <2>1. Complete(conn[e].client, conn[e].got, thread[conn[e].session].read)
    BY DEF LinesInv, ReceivedAll
  <2>2. CASE e = d
    <3>1. Complete(conn[d].client, conn[d].got, thread[i].read)
      BY <1>2, <2>1, <2>2
    <3>2. ~Wants(conn[d].client, f, thread'[i].read[f])
      BY <1>1, <1>2
    <3>3. Complete(conn[d].client, conn[d].got, thread'[i].read)
      BY <1>2, <3>1, <3>2, PassLine
    <3> QED
      BY <1>2, <2>2, <3>3
  <2>3. CASE e # d
    BY <1>2, <2>1, <2>3
  <2> QED
    BY <2>2, <2>3
<1> QED
  BY <1>3, <1>4, <1>5 DEF LinesInv

LEMMA SendLines ==
    ASSUME TypeOK, BaseInv, TableInv, LinesInv, NEW i \in Sessions, NEW f \in Files,
           SendLine(i, f)
    PROVE  LinesInv'
<1>1. ReadLine(i, f) /\ Wants(User(i).login, f, NextLine(i, f))
  BY SendFacts
<1>2. PICK d \in Fds :
              /\ d = User(i).sockfd /\ conn[d].session = i /\ conn[d].client = User(i).login
              /\ \A k \in Sessions \ {i} : Running(k) => User(k).sockfd \in Fds \ {d}
              /\ \A e \in Fds \ {d} : conn[e].session # i
              /\ \A k \in Sessions : Running(k)' => Running(k) /\ User(k)' = User(k)
              /\ thread[i].read \in [Files -> 0 .. MaxLines]
              /\ thread'[i].read \in [Files -> 0 .. MaxLines]
              /\ \A g \in Files : thread'[i].read[g] = IF g = f THEN thread[i].read[f] + 1
                                                               ELSE thread[i].read[g]
              /\ NextLine(i, f) \in LineNums /\ NextLine(i, f) = thread'[i].read[f]
              /\ f \in thread[i].fp /\ thread'[i].fp = thread[i].fp
              /\ \A k \in Sessions \ {i} : thread'[k] = thread[k]
              /\ conn[d].got \in Seq(Files \X LineNums)
  BY <1>1, ReadLineFacts
<1>3. PICK n \in LineNums : n = NextLine(i, f)
  BY <1>2
<1>4. /\ \A e \in Fds \ {d} : conn'[e] = conn[e]
      /\ conn'[d].session = i /\ conn'[d].client = conn[d].client
      /\ conn'[d].gone = conn[d].gone
      /\ conn'[d].got = IF conn[d].gone THEN conn[d].got ELSE Append(conn[d].got, <<f, n>>)
  BY <1>2, <1>3, SendFacts
<1>5. Running(i)
  BY <1>1, ReadFacts DEF Running
\* What becomes of what the service of d received
<1>6. /\ \A g \in thread[i].fp : GroupMatches(conn[d].client, g)
      /\ Within(conn[d].got, thread[i].read)
  BY <1>2, <1>5 DEF LinesInv, SentOfRead
<1>7. InOrder(conn[d].client, conn[d].got)
  BY DEF LinesInv, ReceivedInOrder
<1>8. /\ Within(conn'[d].got, thread'[i].read) /\ InOrder(conn[d].client, conn'[d].got)
      /\ ~conn[d].gone => Complete(conn[d].client, conn'[d].got, thread'[i].read)
  <2>1. CASE conn[d].gone
    <3>1. Within(conn[d].got, thread'[i].read)
      <4>1. /\ conn[d].got \in Seq(Files \X LineNums)
            /\ thread[i].read \in [Files -> 0 .. MaxLines]
            /\ thread'[i].read \in [Files -> 0 .. MaxLines]
            /\ \A g \in Files : thread'[i].read[g] = IF g = f THEN thread[i].read[f] + 1
                                                             ELSE thread[i].read[g]
        BY <1>2
      <4>2. Within(conn[d].got, thread[i].read)
        BY <1>6
      <4>3. PICK got \in Seq(Files \X LineNums) : got = conn[d].got
        BY <4>1
      <4>4. PICK read \in [Files -> 0 .. MaxLines] : read = thread[i].read
        BY <4>1
      <4>5. PICK next \in [Files -> 0 .. MaxLines] : next = thread'[i].read
        BY <4>1
      <4>6. /\ \A g \in Files : next[g] = IF g = f THEN read[f] + 1 ELSE read[g]
            /\ Within(got, read)
        BY <4>1, <4>2, <4>3, <4>4, <4>5
      <4>7. Within(got, next)
        BY <4>6, ReadWithin
      <4> QED
        BY <4>3, <4>5, <4>7
    <3> QED
      BY <1>4, <1>7, <2>1, <3>1
  <2>2. CASE ~conn[d].gone
    <3>1. Complete(conn[d].client, conn[d].got, thread[i].read)
      BY <1>2, <2>2 DEF LinesInv, ReceivedAll
    <3>2. GroupMatches(conn[d].client, f) /\ Wants(conn[d].client, f, n) /\ n = thread'[i].read[f]
      BY <1>1, <1>2, <1>3, <1>6
    <3>3. LET more == Append(conn[d].got, <<f, n>>)
          IN  /\ Within(more, thread'[i].read) /\ Complete(conn[d].client, more, thread'[i].read)
              /\ InOrder(conn[d].client, more)
      BY <1>2, <1>6, <1>7, <3>1, <3>2, AppendLine
    <3> QED
      BY <1>4, <2>2, <3>3
  <2> QED
    BY <2>1, <2>2
<1>9. SentOfRead'
  <2> SUFFICES ASSUME NEW k \in Sessions, Running(k)'
               PROVE  /\ \A g \in thread'[k].fp : GroupMatches(User(k)'.login, g)
                      /\ Within(conn'[User(k)'.sockfd].got, thread'[k].read)
    BY DEF SentOfRead
  <2>1. Running(k) /\ User(k)' = User(k)
    BY <1>2
  <2>2. /\ \A g \in thread[k].fp : GroupMatches(User(k).login, g)
        /\ Within(conn[User(k).sockfd].got, thread[k].read)
    BY <2>1 DEF LinesInv, SentOfRead
  <2>3. CASE k = i
    BY <1>2, <1>8, <2>1, <2>2, <2>3
  <2>4. CASE k # i
    <3>1. User(k).sockfd \in Fds \ {d} /\ thread'[k] = thread[k]
      BY <1>2, <2>1, <2>4
    <3>2. conn'[User(k).sockfd] = conn[User(k).sockfd]
      BY <1>4, <3>1
    <3> QED
      BY <2>1, <2>2, <3>1, <3>2
  <2> QED
    BY <2>3, <2>4
<1>10. ReceivedInOrder'
  <2> SUFFICES ASSUME NEW e \in Fds
               PROVE  InOrder(conn'[e].client, conn'[e].got)
    BY DEF ReceivedInOrder
  <2>1. CASE e = d
    BY <1>4, <1>8, <2>1
  <2>2. CASE e # d
    BY <1>4, <2>2 DEF LinesInv, ReceivedInOrder
  <2> QED
    BY <2>1, <2>2
<1>11. ReceivedAll'
  <2> SUFFICES ASSUME NEW e \in Fds, conn'[e].session \in Sessions, ~conn'[e].gone
               PROVE  Complete(conn'[e].client, conn'[e].got, thread'[conn'[e].session].read)
    BY DEF ReceivedAll
  <2>1. CASE e = d
    BY <1>4, <1>8, <2>1
  <2>2. CASE e # d
    <3>1. conn'[e] = conn[e]
      BY <1>4, <2>2
    <3>2. Complete(conn[e].client, conn[e].got, thread[conn[e].session].read)
      BY <3>1 DEF LinesInv, ReceivedAll
    <3>3. thread'[conn[e].session] = thread[conn[e].session]
      BY <1>2, <2>2, <3>1
    <3> QED
      BY <3>1, <3>2, <3>3
  <2> QED
    BY <2>1, <2>2
<1> QED
  BY <1>9, <1>10, <1>11 DEF LinesInv
----------------------------------------------------------------------------
(* What was received is in the files, without a gap                        *)

\* Nothing is received, and the files do not get shorter.
LEMMA WrittenKept ==
    ASSUME TypeOK, WrittenInv,
           \A f \in Files : written'[f] \in Nat /\ written[f] <= written'[f],
           \A d \in Fds : \/ conn'[d].got = <<>>
                          \/ conn'[d].got = conn[d].got /\ conn'[d].client = conn[d].client
    PROVE  WrittenInv'
<1> USE ConstantFacts
<1> SUFFICES ASSUME NEW d \in Fds
             PROVE  Within(conn'[d].got, written') /\ WithoutGap(conn'[d].client, conn'[d].got)
  BY DEF WrittenInv
<1>1. CASE conn'[d].got = <<>>
  BY <1>1 DEF Within, WithoutGap
<1>2. CASE conn'[d].got = conn[d].got /\ conn'[d].client = conn[d].client
  <2>1. Within(conn[d].got, written) /\ WithoutGap(conn[d].client, conn[d].got)
    BY DEF WrittenInv
  <2>2. conn[d].got \in Seq(Files \X LineNums) /\ written \in [Files -> 0 .. MaxLines]
    BY TypeParts, ConnFacts
  <2>3. Within(conn[d].got, written')
    <3> SUFFICES ASSUME NEW k \in DOMAIN conn[d].got
                 PROVE  conn[d].got[k][2] <= written'[conn[d].got[k][1]]
      BY DEF Within
    <3>1. conn[d].got[k] \in Files \X LineNums
      BY <2>2
    <3>2. conn[d].got[k][1] \in Files /\ conn[d].got[k][2] \in Nat
      BY <3>1
    <3>3. conn[d].got[k][2] <= written[conn[d].got[k][1]]
      BY <2>1 DEF Within
    <3>4. \A f \in Files : /\ written[f] \in Nat /\ written'[f] \in Nat
                           /\ written[f] <= written'[f]
      BY <2>2
    <3> QED
      BY <3>2, <3>3, <3>4
  <2> QED
    BY <1>2, <2>1, <2>3
<1> QED
  BY <1>1, <1>2

LEMMA WrittenSame ==
    ASSUME TypeOK, WrittenInv, written' = written,
           \A d \in Fds : \/ conn'[d].got = <<>>
                          \/ conn'[d].got = conn[d].got /\ conn'[d].client = conn[d].client
    PROVE  WrittenInv'
<1>1. written \in [Files -> 0 .. MaxLines]
  BY TypeParts
<1>2. \A f \in Files : written'[f] \in Nat /\ written[f] <= written'[f]
  BY <1>1, ConstantFacts
<1> QED
  BY <1>2, WrittenKept

\* The next line of a file is received.
LEMMA AppendGap ==
    ASSUME NEW l, NEW got \in Seq(Files \X LineNums), NEW read \in [Files -> 0 .. MaxLines],
           NEW f \in Files, NEW n \in LineNums, n = read[f] + 1,
           NEW file \in [Files -> 0 .. MaxLines], n <= file[f],
           Complete(l, got, read), Within(got, file), WithoutGap(l, got)
    PROVE  LET more == Append(got, <<f, n>>)
           IN  Within(more, file) /\ WithoutGap(l, more)
<1> USE ConstantFacts
<1> DEFINE more == Append(got, <<f, n>>)
<1>1. /\ Len(got) \in Nat /\ DOMAIN got = 1 .. Len(got) /\ DOMAIN more = 1 .. Len(got) + 1
      /\ \A k \in 1 .. Len(got) : more[k] = got[k]
      /\ more[Len(got) + 1] = <<f, n>>
  OBVIOUS
<1> HIDE DEF more
<1>2. Within(more, file)
  <2> SUFFICES ASSUME NEW k \in DOMAIN more
               PROVE  more[k][2] <= file[more[k][1]]
    BY DEF Within
  <2>1. CASE k \in DOMAIN got
    <3>1. more[k] = got[k]
      BY <1>1, <2>1
    <3> QED
      BY <2>1, <3>1 DEF Within
  <2>2. CASE k = Len(got) + 1
    BY <1>1, <2>2
  <2> QED
    BY <1>1, <2>1, <2>2
<1>3. WithoutGap(l, more)
  <2> SUFFICES ASSUME NEW k \in DOMAIN more, NEW m \in 1 .. more[k][2] - 1,
                      Wants(l, more[k][1], m)
               PROVE  \E j \in DOMAIN more : more[j] = <<more[k][1], m>>
    BY DEF WithoutGap
  <2>1. CASE k \in DOMAIN got
    <3>1. more[k] = got[k]
      BY <1>1, <2>1
    <3>2. PICK j \in DOMAIN got : got[j] = <<got[k][1], m>>
      BY <2>1, <3>1 DEF WithoutGap
    <3>3. j \in DOMAIN more /\ more[j] = got[j]
      BY <1>1
    <3> QED
      BY <3>1, <3>2, <3>3
  <2>2. CASE k = Len(got) + 1
    <3>1. more[k][1] = f /\ more[k][2] = n
      BY <1>1, <2>2
    <3>2. m \in 1 .. n - 1
      BY <3>1
    <3>3. read[f] \in Nat
      OBVIOUS
    <3>4. m \in 1 .. read[f]
      BY <3>2, <3>3
    <3>5. PICK j \in DOMAIN got : got[j] = <<f, m>>
      BY <3>1, <3>4 DEF Complete
    <3>6. j \in DOMAIN more /\ more[j] = got[j]
      BY <1>1
    <3> QED
      BY <3>1, <3>5, <3>6
  <2> QED
    BY <1>1, <2>1, <2>2
<1> QED
  BY <1>2, <1>3 DEF more

LEMMA SendWritten ==
    ASSUME TypeOK, BaseInv, TableInv, LinesInv, WrittenInv, NEW i \in Sessions, NEW f \in Files,
           SendLine(i, f)
    PROVE  WrittenInv'
<1>1. ReadLine(i, f) /\ f \in Readable(i)
  BY SendFacts DEF ReadLine
<1>2. PICK d \in Fds :
              /\ d = User(i).sockfd /\ conn[d].session = i
              /\ thread[i].read \in [Files -> 0 .. MaxLines]
              /\ NextLine(i, f) \in LineNums
              /\ conn[d].got \in Seq(Files \X LineNums)
  BY <1>1, ReadLineFacts
<1>3. PICK n \in LineNums : n = NextLine(i, f)
  BY <1>2
<1>4. /\ \A e \in Fds \ {d} : conn'[e] = conn[e]
      /\ conn'[d].client = conn[d].client
      /\ conn'[d].got = IF conn[d].gone THEN conn[d].got ELSE Append(conn[d].got, <<f, n>>)
      /\ written' = written
  BY <1>1, <1>2, <1>3, SendFacts, ReadFacts
<1>5. CASE conn[d].gone
  <2>1. \A e \in Fds : conn'[e].got = conn[e].got /\ conn'[e].client = conn[e].client
    BY <1>4, <1>5
  <2> QED
    BY <1>4, <2>1, WrittenSame
<1>6. CASE ~conn[d].gone
  <2>1. n = thread[i].read[f] + 1 /\ written \in [Files -> 0 .. MaxLines]
    BY <1>3, TypeParts DEF NextLine
  <2>2. n <= written[f]
    <3>1. thread[i].read[f] < written[f]
      BY <1>1 DEF BaseInv, SelectedHasLine
    <3>2. thread[i].read[f] \in Nat /\ written[f] \in Nat
      BY <1>2, <2>1
    <3> QED
      BY <2>1, <3>1, <3>2
  <2>3. Complete(conn[d].client, conn[d].got, thread[i].read)
    BY <1>2, <1>6 DEF LinesInv, ReceivedAll
  <2>4. Within(conn[d].got, written) /\ WithoutGap(conn[d].client, conn[d].got)
    BY DEF WrittenInv
  <2>5. LET more == Append(conn[d].got, <<f, n>>)
        IN  Within(more, written) /\ WithoutGap(conn[d].client, more)
    BY <1>2, <2>1, <2>2, <2>3, <2>4, AppendGap
  <2>6. Within(conn'[d].got, written) /\ WithoutGap(conn'[d].client, conn'[d].got)
    BY <1>4, <1>6, <2>5
  <2> QED
    BY <1>4, <2>6 DEF WrittenInv
<1> QED
  BY <1>5, <1>6

\* Every step of the server
LEMMA MainWritten ==
    ASSUME TypeOK, BaseInv, TableInv, WrittenInv, MainThread
    PROVE  WrittenInv'
<1>1. CASE Poll
  BY <1>1, PollFacts, WrittenSame
<1>2. ASSUME NEW d \in Fds, RemoveClient(d) PROVE WrittenInv'
  <2>1. written' = written /\ conn' = conn
    BY <1>2, RemoveClientFacts, RemoveClientTable
  <2> QED
    BY <2>1, WrittenSame
<1>3. ASSUME NEW l \in Logins, AcceptUser(l) PROVE WrittenInv'
  <2>1. PICK d \in Fds : conn'[d] = Socket(NewThread, l) /\ \A e \in Fds \ {d} : conn'[e] = conn[e]
    BY <1>3, AcceptFacts
  <2>2. conn'[d].got = <<>> /\ written' = written
    BY <1>3, <2>1, AcceptFacts, SocketFacts
  <2>3. \A e \in Fds : \/ conn'[e].got = <<>>
                       \/ conn'[e].got = conn[e].got /\ conn'[e].client = conn[e].client
    BY <2>1, <2>2
  <2> QED
    BY <2>2, <2>3, WrittenSame
<1>4. CASE RefuseUser
  BY <1>4, RefuseFacts, WrittenSame
<1>5. CASE CountThread
  BY <1>5, CountFacts, WrittenSame
<1>6. CASE Terminate(0) \/ Join(0) \/ LeaveLoop(0) \/ ClearUser(0)
  <2>1. written' = written /\ conn' = conn
    BY <1>6 DEF Terminate, Join, LeaveLoop, ClearUser, env
  <2> QED
    BY <2>1, WrittenSame
<1>7. CASE CloseUser(0)
  <2>1. 0 \in Actors
    BY ConstantFacts
  <2>2. PICK d \in Fds : conn'[d] = Closed /\ \A e \in Fds \ {d} : conn'[e] = conn[e]
    BY <1>7, <2>1, CloseFacts
  <2>3. conn'[d].got = <<>> /\ written' = written
    BY <1>7, <2>1, <2>2, CloseFacts, SocketFacts
  <2>4. \A e \in Fds : \/ conn'[e].got = <<>>
                       \/ conn'[e].got = conn[e].got /\ conn'[e].client = conn[e].client
    BY <2>2, <2>3
  <2> QED
    BY <2>3, <2>4, WrittenSame
<1> QED
  BY <1>1, <1>2, <1>3, <1>4, <1>5, <1>6, <1>7 DEF MainThread, RemoveUser

LEMMA ThreadWritten ==
    ASSUME TypeOK, BaseInv, TableInv, LinesInv, WrittenInv, NEW i \in Sessions, ThreadProcess(i),
           lapse' = {}
    PROVE  WrittenInv'
<1>1. CASE BeginRound(i)
  BY <1>1, BeginFacts, WrittenSame
<1>2. CASE EndThread(i)
  BY <1>2, EndFacts, WrittenSame
<1>3. ASSUME NEW f \in Files, SkipLine(i, f) PROVE WrittenInv'
  <2>1. written' = written /\ conn' = conn
    BY <1>3 DEF SkipLine, ReadLine, env
  <2> QED
    BY <2>1, WrittenSame
<1>4. ASSUME NEW f \in Files, SendLine(i, f) PROVE WrittenInv'
  BY <1>4, SendWritten
<1>5. ASSUME NEW f \in Files, SendFails(i, f) PROVE FALSE
  BY <1>5 DEF SendFails
<1>6. CASE RemoveUser(i)
  <2>1. remove[i].pc = "idle" /\ i # 0
    BY ConstantFacts DEF TableInv, OnlyMainRemoves
  <2> QED
    BY <1>6, <2>1 DEF RemoveUser, Terminate, Join, LeaveLoop, CloseUser, ClearUser
<1> QED
  BY <1>1, <1>2, <1>3, <1>4, <1>5, <1>6 DEF ThreadProcess

----------------------------------------------------------------------------
(* Every step *)

\* The lines are left alone.
LEMMA LinesSame ==
    ASSUME LinesInv, UNCHANGED <<thread, response_user, conn>>,
           \A i \in Sessions : local'[i].pc = "round" =>
               local[i].pc = "round" /\ local'[i].user_offset = local[i].user_offset
    PROVE  LinesInv'
<1>1. \A i \in Sessions : Running(i)' => Running(i) /\ User(i)' = User(i)
  BY DEF Running, User
<1> QED
  BY <1>1, LinesKept

LEMMA RemoveInv ==
    ASSUME TypeOK, BaseInv, TableInv, LinesInv, RemoveUser(0)
    PROVE  TableInv' /\ LinesInv'
<1> USE ConstantFacts
<1>1. CASE Terminate(0)
  <2>1. PICK i \in Sessions :
              /\ \A k \in Sessions \ {i} : thread'[k] = thread[k]
              /\ thread'[i].fp = thread[i].fp /\ thread'[i].read = thread[i].read
              /\ UNCHANGED <<local, response_user, conn>>
    BY <1>1, MainTerminates
  <2>2. \A k \in Sessions : thread'[k].fp = thread[k].fp /\ thread'[k].read = thread[k].read
    BY <2>1
  <2>3. \A k \in Sessions : Running(k)' => Running(k) /\ User(k)' = User(k)
    BY <2>1 DEF Running, User
  <2>4. LinesInv'
    BY <2>1, <2>2, <2>3, LinesKept
  <2> QED
    BY <1>1, <2>4, TerminateTable
<1>2. CASE Join(0)
  <2>1. PICK i : i = remove[0].i
    OBVIOUS
  <2>2. /\ local[i].pc = "done" /\ \A k \in Sessions \ {i} : thread'[k] = thread[k]
        /\ i \in Sessions => thread'[i] = Entry(0)
        /\ UNCHANGED <<local, response_user, conn>>
    BY <1>2, <2>1, JoinFacts
  <2>3. \A k \in Sessions : Running(k)' => Running(k) /\ User(k)' = User(k) /\ k # i
    BY <2>2 DEF Running, User
  <2>4. \A k \in Sessions : thread'[k] = thread[k] \/ \A f \in Files : thread'[k].read[f] = 0
    BY <2>2, EntryFacts
  <2>5. \A k \in Sessions : Running(k)' => thread'[k] = thread[k]
    BY <2>2, <2>3
  <2>6. LinesInv'
    BY <2>2, <2>3, <2>4, <2>5, LinesKept
  <2> QED
    BY <1>2, <2>6, JoinTable
<1>3. CASE LeaveLoop(0)
  BY <1>3, LeaveFacts
<1>4. CASE CloseUser(0)
  <2>1. PICK d \in Fds : d = response_user[remove[0].offset].sockfd
    BY <1>4, CloseConn
  <2>2. /\ conn'[d] = Closed /\ \A e \in Fds \ {d} : conn'[e] = conn[e]
        /\ UNCHANGED <<thread, local, response_user>>
    BY <1>4, <2>1, CloseFacts
  <2>3. \A k \in Sessions : Running(k)' => Running(k) /\ User(k)' = User(k)
    BY <2>2 DEF Running, User
  <2>4. \A k \in Sessions : Running(k) => User(k).sockfd \in Fds \ {d}
    BY <1>4, <2>1, CloseConn, RunningFacts
  <2>5. \A k \in Sessions : Running(k)' => conn'[User(k).sockfd].got = conn[User(k).sockfd].got
    BY <2>2, <2>3, <2>4
  <2>6. conn'[d].session \notin Sessions /\ conn'[d].got = <<>>
    BY <2>2, SocketFacts
  <2>7. LinesInv'
    BY <2>2, <2>3, <2>5, <2>6, LinesKept
  <2> QED
    BY <1>4, <2>7, CloseTable
<1>5. CASE ClearUser(0)
  <2>1. /\ UNCHANGED <<thread, local, conn>>
        /\ \A k \in Sessions : Running(k) => User(k)' = User(k)
    BY <1>5, ClearFacts, ClearTable
  <2>2. \A k \in Sessions : Running(k)' => Running(k)
    BY <2>1 DEF Running
  <2>3. LinesInv'
    BY <2>1, <2>2, LinesKept
  <2> QED
    BY <1>5, <2>3, ClearTable
<1> QED
  BY <1>1, <1>2, <1>3, <1>4, <1>5 DEF RemoveUser

LEMMA MainInv ==
    ASSUME TypeOK, BaseInv, TableInv, LinesInv, MainThread
    PROVE  TableInv' /\ LinesInv'
<1> USE ConstantFacts
<1>1. CASE Poll
  <2>1. /\ main.pc = "loop" /\ main'.pc = "loop" /\ remove[0].pc = "idle" /\ main' \in MainRec
        /\ \A d \in main'.events \ {Listen} : conn[d].gone
        /\ UNCHANGED <<thread_count, thread, local, remove, response_user, conn>>
    BY <1>1, PollFacts
  <2>2. \A d \in main'.events \ {Listen} : d \in Fds
    BY <2>1, MainFacts
  <2> QED
    BY <2>1, <2>2, MainTable, LinesSame
<1>2. ASSUME NEW d \in Fds, RemoveClient(d) PROVE TableInv' /\ LinesInv'
  <2>1. UNCHANGED <<thread, local, response_user>>
    BY <1>2, RemoveClientFacts
  <2> QED
    BY <1>2, <2>1, RemoveClientTable, LinesSame
<1>3. ASSUME NEW l \in Logins, AcceptUser(l) PROVE TableInv' /\ LinesInv'
  BY <1>3, AcceptTable, AcceptLines
<1>4. CASE RefuseUser
  <2>1. /\ main.pc = "loop" /\ main'.pc = "loop" /\ remove[0].pc = "idle"
        /\ main'.events = main.events \ {Listen}
        /\ UNCHANGED <<thread_count, thread, local, remove, response_user, conn>>
    BY <1>4, RefuseFacts
  <2>2. \A d \in main'.events \ {Listen} : d \in Fds /\ conn[d].gone
    BY <2>1, TableTypes DEF TableInv, Events
  <2> QED
    BY <2>1, <2>2, MainTable, LinesSame
<1>5. CASE CountThread
  <2>1. UNCHANGED <<thread, local, response_user, conn>>
    BY <1>5, CountFacts
  <2> QED
    BY <1>5, <2>1, CountTable, LinesSame
<1>6. CASE RemoveUser(0)
  BY <1>6, RemoveInv
<1> QED
  BY <1>1, <1>2, <1>3, <1>4, <1>5, <1>6 DEF MainThread

\* No session thread removes its own user.
LEMMA ThreadInv ==
    ASSUME TypeOK, BaseInv, TableInv, LinesInv, NEW i \in Sessions, ThreadProcess(i),
           lapse' = {}
    PROVE  TableInv' /\ LinesInv'
<1> USE ConstantFacts
<1>1. CASE BeginRound(i)
  <2>1. /\ \A k \in Sessions : local'[k].pc = local[k].pc
                               /\ local'[k].user_offset = local[k].user_offset
        /\ \A k \in Sessions : /\ thread'[k].thread_terminate = thread[k].thread_terminate
                               /\ thread'[k].user_offset = thread[k].user_offset
                               /\ thread'[k].read = thread[k].read
        /\ UNCHANGED <<main, thread_count, remove, response_user, conn>>
    BY <1>1, BeginFacts
  <2>2. \A k \in Sessions : \A f \in thread'[k].fp :
            f \in thread[k].fp \/ GroupMatches(User(k).login, f)
    BY <1>1, BeginFacts
  <2>3. TableInv'
    BY <2>1, TableKept
  <2>4. \A k \in Sessions : Running(k)' => Running(k) /\ User(k)' = User(k)
    BY <2>1 DEF Running, User
  <2>5. LinesInv'
    BY <2>1, <2>2, <2>4, LinesKept
  <2> QED
    BY <2>3, <2>5
<1>2. CASE EndThread(i)
  <2>1. /\ UNCHANGED <<thread, response_user, conn>>
        /\ \A k \in Sessions : local'[k].pc = "round" =>
               local[k].pc = "round" /\ local'[k].user_offset = local[k].user_offset
    BY <1>2, EndFacts
  <2> QED
    BY <1>2, <2>1, EndTable, LinesSame
<1>3. ASSUME NEW f \in Files, SkipLine(i, f) PROVE TableInv' /\ LinesInv'
  <2>1. ReadLine(i, f) /\ UNCHANGED <<remove, conn>>
    BY <1>3 DEF SkipLine
  <2>2. /\ \A k \in Sessions : /\ local'[k].pc = local[k].pc
                               /\ local'[k].user_offset = local[k].user_offset
                               /\ thread'[k].thread_terminate = thread[k].thread_terminate
                               /\ thread'[k].user_offset = thread[k].user_offset
        /\ UNCHANGED <<main, thread_count, response_user>>
    BY <2>1, ReadFacts
  <2>3. TableInv'
    BY <2>1, <2>2, TableKept
  <2> QED
    BY <1>3, <2>3, SkipLines
<1>4. ASSUME NEW f \in Files, SendLine(i, f) PROVE TableInv' /\ LinesInv'
  <2>1. ReadLine(i, f) /\ UNCHANGED remove
    BY <1>4, SendFacts
  <2>2. /\ \A k \in Sessions : /\ local'[k].pc = local[k].pc
                               /\ local'[k].user_offset = local[k].user_offset
                               /\ thread'[k].thread_terminate = thread[k].thread_terminate
                               /\ thread'[k].user_offset = thread[k].user_offset
        /\ UNCHANGED <<main, thread_count, response_user>>
    BY <2>1, ReadFacts
  <2>3. \A d \in Fds :
               /\ conn'[d].session = conn[d].session /\ conn'[d].client = conn[d].client
               /\ conn'[d].gone = conn[d].gone
    BY <1>4, SendFacts
  <2>4. TableInv'
    BY <2>1, <2>2, <2>3, TableKept
  <2> QED
    BY <1>4, <2>4, SendLines
<1>5. ASSUME NEW f \in Files, SendFails(i, f) PROVE FALSE
  BY <1>5 DEF SendFails
<1>6. CASE RemoveUser(i)
  <2>1. remove[i].pc = "idle" /\ i # 0
    BY DEF TableInv, OnlyMainRemoves
  <2> QED
    BY <1>6, <2>1 DEF RemoveUser, Terminate, Join, LeaveLoop, CloseUser, ClearUser
<1> QED
  BY <1>1, <1>2, <1>3, <1>4, <1>5, <1>6 DEF ThreadProcess

\* Only the end of the process makes lapse empty again.
LEMMA LapseGrows ==
    ASSUME TypeOK, BaseInv, [Next]_vars, lapse' = {}
    PROVE  Stop \/ lapse = {}
<1>1. InitServer \/ InitSystemDate => lapse' = lapse
  BY DEF InitServer, InitSystemDate
<1>2. ASSUME NEW f \in Files, AppendResponse(f) PROVE lapse' = lapse
  BY <1>2 DEF AppendResponse
<1>3. ASSUME NEW d \in Fds, HangUp(d) PROVE lapse' = lapse
  BY <1>3 DEF HangUp
<1>4. ASSUME NEW a, RemoveUser(a) PROVE lapse' = lapse
  BY <1>4 DEF RemoveUser, Terminate, Join, LeaveLoop, CloseUser, ClearUser
<1>5. MainThread => lapse' = lapse
  BY <1>4 DEF MainThread, Poll, RemoveClient, AcceptUser, RefuseUser, CountThread
<1>6. ASSUME NEW i \in Sessions, ThreadProcess(i) PROVE lapse' = lapse \/ lapse' = lapse \cup {i}
  BY <1>4, <1>6 DEF ThreadProcess, BeginRound, EndThread, SkipLine, SendLine, SendFails
<1>7. UNCHANGED vars => lapse' = lapse
  BY DEF vars
<1> QED
  BY <1>1, <1>2, <1>3, <1>5, <1>6, <1>7 DEF Next

\* A line is written, be it to a file of the day of system_date or another.
LEMMA AppendInv ==
    ASSUME IInv, NEW f \in Files,
           written[f] < MaxLines, written' = [written EXCEPT ![f] = @ + 1],
           UNCHANGED <<system_date, main, thread_count, thread, local, remove, response_user, conn,
                       lapse>>
    PROVE  IInv'
<1>1. TypeOK /\ BaseInv
  BY DEF IInv
<1>2. TypeOK' /\ BaseInv'
  BY <1>1, AppendBase
<1>3. ASSUME lapse' = {} PROVE TableInv' /\ LinesInv' /\ WrittenInv'
  <2>1. TableInv /\ LinesInv /\ WrittenInv
    BY <1>3 DEF IInv
  <2>2. written \in [Files -> 0 .. MaxLines]
    BY <1>1, TypeParts
  <2>3. \A g \in Files : written'[g] \in Nat /\ written[g] <= written'[g]
    BY <2>2, ConstantFacts
  <2> QED
    BY <1>1, <2>1, <2>3, TableKept, LinesSame, WrittenKept
<1> QED
  BY <1>2, <1>3 DEF IInv

LEMMA StepInv ==
    ASSUME IInv, [Next]_vars
    PROVE  IInv'
<1>1. TypeOK /\ BaseInv
  BY DEF IInv
<1>2. TypeOK' /\ BaseInv'
  BY <1>1, BaseStep
<1>3. CASE Stop
  BY <1>1, <1>3, StopInv
<1>4. ASSUME lapse' = {}, ~Stop
      PROVE  TableInv' /\ LinesInv' /\ WrittenInv'
  <2>1. TableInv /\ LinesInv /\ WrittenInv
    BY <1>1, <1>4, LapseGrows DEF IInv
  <2>2. CASE InitServer
    <3>1. /\ main.pc = "down" /\ main \in MainRec /\ main' = [main EXCEPT !.pc = "loop"]
          /\ UNCHANGED <<written, thread_count, thread, local, remove, response_user, conn>>
      BY <1>1, <2>2, TypeParts DEF InitServer, env, table
    <3>2. main'.pc = "loop" /\ main'.events = main.events
      BY <3>1, MoveMain
    <3>3. \A d \in main'.events \ {Listen} : d \in Fds /\ conn[d].gone
      BY <1>1, <2>1, <3>2, TableTypes DEF TableInv, Events
    <3> QED
      BY <1>1, <2>1, <3>1, <3>2, <3>3, MainTable, LinesSame, WrittenSame
  <2>3. CASE InitSystemDate
    <3>1. UNCHANGED <<written, main, thread_count, thread, local, remove, response_user, conn>>
      BY <2>3 DEF InitSystemDate, table
    <3> QED
      BY <1>1, <2>1, <3>1, TableKept, LinesSame, WrittenSame
  <2>4. ASSUME NEW f \in Files, AppendResponse(f) PROVE TableInv' /\ LinesInv' /\ WrittenInv'
    <3>1. /\ written[f] < MaxLines /\ written' = [written EXCEPT ![f] = @ + 1]
          /\ UNCHANGED <<system_date, main, thread_count, thread, local, remove, response_user,
                         conn, lapse>>
      BY <2>4 DEF AppendResponse, table
    <3> QED
      BY <1>4, <3>1, AppendInv DEF IInv
  <2>5. ASSUME NEW d \in Fds, HangUp(d) PROVE TableInv' /\ LinesInv' /\ WrittenInv'
    <3>1. /\ \A e \in Fds : /\ conn'[e].session = conn[e].session
                            /\ conn'[e].client = conn[e].client /\ conn'[e].got = conn[e].got
                            /\ conn[e].gone => conn'[e].gone
          /\ UNCHANGED <<written, thread, local, response_user>>
      BY <1>1, <2>5, HangUpFacts
    <3>2. \A k \in Sessions : Running(k)' => Running(k) /\ User(k)' = User(k)
      BY <3>1 DEF Running, User
    <3>3. \A k \in Sessions : Running(k) => User(k).sockfd \in Fds
      BY <1>1, <2>1, RunningFacts
    <3>4. \A k \in Sessions : Running(k)' => conn'[User(k).sockfd].got = conn[User(k).sockfd].got
      BY <3>1, <3>2, <3>3
    <3>5. LinesInv'
      BY <2>1, <3>1, <3>2, <3>4, LinesKept
    <3>6. WrittenInv'
      BY <1>1, <2>1, <3>1, WrittenSame
    <3> QED
      BY <1>1, <2>1, <2>5, <3>5, <3>6, HangUpTable
  <2>6. CASE MainThread
    BY <1>1, <2>1, <2>6, MainInv, MainWritten
  <2>7. ASSUME NEW i \in Sessions, ThreadProcess(i)
        PROVE  TableInv' /\ LinesInv' /\ WrittenInv'
    BY <1>1, <1>4, <2>1, <2>7, ThreadInv, ThreadWritten
  <2>8. CASE UNCHANGED vars
    <3>1. UNCHANGED <<written, main, thread_count, thread, local, remove, response_user, conn>>
      BY <2>8 DEF vars, env, table
    <3> QED
      BY <1>1, <2>1, <3>1, TableKept, LinesSame, WrittenSame
  <2> QED
    BY <1>4, <2>2, <2>3, <2>4, <2>5, <2>6, <2>7, <2>8 DEF Next
<1> QED
  BY <1>2, <1>3, <1>4 DEF IInv

LEMMA ResponseInvariant == Spec => []IInv
<1>1. Init => IInv
  BY InitInv
<1>2. IInv /\ [Next]_vars => IInv'
  BY StepInv
<1> QED
  BY <1>1, <1>2, PTL DEF Spec

----------------------------------------------------------------------------
(* What the response server promises *)

\* Every step of the main thread, of the session threads and of the services,
\* in any order, leaves the tables well formed.
THEOREM ResponseTypeCorrect == Spec => []TypeOK
<1>1. IInv => TypeOK
  BY DEF IInv
<1> QED
  BY <1>1, ResponseInvariant, PTL

\* As long as no session thread has called RemoveUser itself, running session
\* threads, slots of mdb->user.response_user in use and open descriptors belong to
\* each other one to one, but for the slot that RemoveUser is at.
THEOREM ResponseSessionsExact == Spec => []SessionsExact
<1>1. IInv => SessionsExact
  <2> SUFFICES ASSUME IInv, lapse = {}
               PROVE  /\ \A i \in Sessions : Running(i) =>
                            /\ thread[i].user_offset = local[i].user_offset
                            /\ conn[User(i).sockfd].session = i
                      /\ \A o \in Users : response_user[o].sockfd # 0 /\ ~Leaving(o) =>
                            \E i \in Sessions : Running(i) /\ local[i].user_offset = o
                      /\ \A d \in Fds : conn[d].session \in Sessions => UsersOf(d) # {}
    BY DEF SessionsExact
  <2>1. TableInv
    BY DEF IInv
  <2>2. SessionConn /\ SlotServed
    BY <2>1 DEF TableInv
  <2>3. \A d \in Fds : conn[d].session \in Sessions => UsersOf(d) # {}
    BY <2>1 DEF TableInv, ConnSlot
  <2> QED
    BY <2>2, <2>3 DEF SessionConn, SlotServed
<1> QED
  BY <1>1, ResponseInvariant, PTL

\* As long as no session thread has called RemoveUser itself, the thread that the
\* main thread is in pthread_join for has its thread_terminate set.
THEOREM ResponseJoinReturns == Spec => []JoinReturns
<1>1. IInv => JoinReturns
  BY DEF IInv, TableInv, Waiting, JoinReturns
<1> QED
  BY <1>1, ResponseInvariant, PTL

\* As long as no session thread has called RemoveUser itself, a service is sent
\* only what it asked for, each file's lines in their order and none twice.
THEOREM ResponseAnswersInOrder == Spec => []AnswersInOrder
<1>1. IInv => AnswersInOrder
  <2> SUFFICES ASSUME IInv, lapse = {}, NEW d \in Fds
               PROVE  InOrder(conn[d].client, conn[d].got)
    BY DEF AnswersInOrder, InOrder
  <2> QED
    BY DEF IInv, LinesInv, ReceivedInOrder
<1> QED
  BY <1>1, ResponseInvariant, PTL

\* As long as no session thread has called RemoveUser itself, a service that is
\* still there has every line it asked for, up to where its thread has read the
\* files: fgets and the filters of ThreadProcess pass over none.
THEOREM ResponseNothingPassedOver == Spec => []NothingPassedOver
<1>1. IInv => NothingPassedOver
  <2> SUFFICES ASSUME IInv, lapse = {}, NEW d \in Fds, conn[d].session \in Sessions,
                      ~conn[d].gone
               PROVE  Complete(conn[d].client, conn[d].got, thread[conn[d].session].read)
    BY DEF NothingPassedOver, Complete, Received
  <2> QED
    BY DEF IInv, LinesInv, ReceivedAll
<1> QED
  BY <1>1, ResponseInvariant, PTL
=============================================================================
