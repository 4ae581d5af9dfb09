------------------------- MODULE SendNodeEventProofs -------------------------
(***************************************************************************)
(* Proofs about SendNodeEvent, for any set of dates and logins and any     *)
(* number of slots, descriptors, lines and sessions.  What holds of the    *)
(* response server holds of the event server, whose code is the same: its  *)
(* steps are steps of the response server, but that the Node process       *)
(* writes files of days other than the server's.                           *)
(***************************************************************************)
EXTENDS SendNodeEvent, TLAPS

Response == INSTANCE ResponseTransactProofs WITH
                Groups <- {NodeAPI}, All <- NodeAPI, NoGroup <- NodeAPI,
                Names <- {NodeAPI}, NoName <- NodeAPI,
                MaxResponses <- MaxEvents, response_user <- send_user

IInv == today \in Dates /\ Response!IInv

----------------------------------------------------------------------------
(* The assumptions about the constants of the response server              *)

LEMMA Product ==
    ASSUME NEW a \in Nat, NEW b \in Nat
    PROVE  a * b \in Nat
OBVIOUS

LEMMA KeyFacts ==
    /\ KeyBase \in Nat \ {0} /\ MaxLines \in Nat
    /\ \A f \in Files : f[1] \in Nat /\ f \in Dates \X {NodeAPI}
    /\ \A f \in Files, n \in LineNums :
          /\ n \in Nat /\ n < KeyBase /\ f[1] * KeyBase \in Nat
          /\ DataKey[f, n] = f[1] * KeyBase + n
<1>1. KeyBase \in Nat \ {0} /\ MaxLines \in Nat
  BY BoundAssumption, LineNumAssumption
<1>2. \A f \in Files : f[1] \in Nat /\ f \in Dates \X {NodeAPI}
  BY DateAssumption DEF Files
<1>3. ASSUME NEW f \in Files, NEW n \in LineNums
      PROVE  /\ n \in Nat /\ n < KeyBase /\ f[1] * KeyBase \in Nat
             /\ DataKey[f, n] = f[1] * KeyBase + n
  <2>1. n \in Nat /\ n < KeyBase
    BY <1>1, LineNumAssumption DEF LineNums
  <2>2. f[1] * KeyBase \in Nat
    BY <1>1, <1>2, Product
  <2>3. DataKey[f, n] = f[1] * KeyBase + n
    <3>1. <<f, n>> \in Files \X LineNums
      OBVIOUS
    <3> QED
      BY <3>1, Zenon DEF DataKey
  <2> QED
    BY <2>1, <2>2, <2>3
<1> QED
  BY <1>1, <1>2, <1>3

LEMMA Assumed ==
    /\ Dates \subseteq Nat /\ Dates # {} /\ Files \subseteq Dates \X {NodeAPI}
    /\ {MaxLines, MaxEvents, MaxUsers, MaxFd, MaxSessions} \subseteq Nat /\ MaxSessions > 0
    /\ Logins \subseteq Response!Login
    /\ KeyBase \in Nat \ {0}
    /\ DataKey \in [Files \X Response!LineNums -> Nat]
    /\ Service \in [Files \X Response!LineNums -> {NodeAPI}]
    /\ \A f \in Files, n \in Response!LineNums :
          /\ Response!KeyDate(DataKey[f, n]) <= f[1]
          /\ \A m \in Response!LineNums : m < n => DataKey[f, m] < DataKey[f, n]
<1>1. Response!LineNums = LineNums
  BY DEF LineNums, Response!LineNums
<1>2. Logins \subseteq Response!Login
  BY LoginKeyAssumption DEF Logins, Response!Login
<1>3. DataKey \in [Files \X LineNums -> Nat]
  <2>1. \A e \in Files \X LineNums : e[1] \in Files /\ e[2] \in LineNums
    OBVIOUS
  <2>2. \A e \in Files \X LineNums : e[1][1] * KeyBase + e[2] \in Nat
    <3> SUFFICES ASSUME NEW e \in Files \X LineNums
                 PROVE  e[1][1] * KeyBase + e[2] \in Nat
      OBVIOUS
    <3>1. e[1][1] * KeyBase \in Nat /\ e[2] \in Nat
      BY <2>1, KeyFacts
    <3> QED
      BY <3>1
  <2> QED
    BY <2>2 DEF DataKey
<1>4. Service \in [Files \X LineNums -> {NodeAPI}]
  BY DEF Service
<1>5. ASSUME NEW f \in Files, NEW n \in LineNums
      PROVE  Response!KeyDate(DataKey[f, n]) <= f[1]
  <2>1. /\ f[1] \in Nat /\ KeyBase \in Nat \ {0} /\ n \in Nat /\ n < KeyBase
        /\ DataKey[f, n] = f[1] * KeyBase + n
    BY KeyFacts
  <2>2. ASSUME NEW c \in Nat, NEW k \in Nat \ {0}, NEW r \in Nat, r < k
        PROVE  (c * k + r) \div k <= c
    BY <2>2, SMT
  <2> QED
    BY <2>1, <2>2 DEF Response!KeyDate
<1>6. ASSUME NEW f \in Files, NEW n \in LineNums, NEW m \in LineNums, m < n
      PROVE  DataKey[f, m] < DataKey[f, n]
  <2> DEFINE c == f[1] * KeyBase
             x == DataKey[f, m]
             y == DataKey[f, n]
  <2>1. /\ c \in Nat /\ m \in Nat /\ n \in Nat
        /\ x = c + m /\ y = c + n
    BY KeyFacts, Zenon
  <2> HIDE DEF c, x, y
  <2>2. x < y
    BY <1>6, <2>1
  <2> QED
    BY <2>2 DEF x, y
<1> QED
  BY <1>1, <1>2, <1>3, <1>4, <1>5, <1>6, DateAssumption, BoundAssumption, KeyFacts DEF Files

----------------------------------------------------------------------------
(* The steps of the event server are those of the response server          *)

\* Both modules define the same actions with the same constants.
LEMMA SameInit == Server!Init => Response!Init
BY Zenon DEF Server!Init, Server!Entry, Server!NoThread, Server!NotCalled, Server!NoUser,
       Server!NoSocket, Server!Closed, Server!Socket, Server!Nobody, Server!Sessions,
       Server!Users, Server!Fds, Server!Actors,
       Response!Init, Response!Entry, Response!NoThread, Response!NotCalled,
       Response!NoUser, Response!NoSocket, Response!Closed, Response!Socket,
       Response!Nobody, Response!Sessions, Response!Users, Response!Fds, Response!Actors

LEMMA SameInitServer == Server!InitServer => Response!InitServer
BY Zenon DEF Server!InitServer, Server!env, Server!table,
       Response!InitServer, Response!env, Response!table

LEMMA SameStop == Server!Stop => Response!Stop
BY Zenon DEF Server!Stop, Server!env, Server!Entry, Server!NoThread, Server!NotCalled,
       Server!NoUser, Server!NoSocket, Server!Closed, Server!Socket, Server!Nobody,
       Server!Sessions, Server!Users, Server!Fds, Server!Actors,
       Response!Stop, Response!env, Response!Entry, Response!NoThread, Response!NotCalled,
       Response!NoUser, Response!NoSocket, Response!Closed, Response!Socket,
       Response!Nobody, Response!Sessions, Response!Users, Response!Fds, Response!Actors

LEMMA SameInitSystemDate == Server!InitSystemDate => Response!InitSystemDate
BY Zenon DEF Server!InitSystemDate, Server!table,
       Response!InitSystemDate, Response!table

LEMMA SamePoll == Server!Poll => Response!Poll
BY Zenon DEF Server!Poll, Server!InLoop, Server!Listen, Server!Fds, Server!env, Server!table,
       Response!Poll, Response!InLoop, Response!Listen, Response!Fds, Response!env,
       Response!table

LEMMA SameRefuseUser == Server!RefuseUser => Response!RefuseUser
BY Zenon DEF Server!RefuseUser, Server!InLoop, Server!Listen, Server!env, Server!table,
       Response!RefuseUser, Response!InLoop, Response!Listen, Response!env, Response!table

LEMMA SameCountThread == Server!CountThread => Response!CountThread
BY Zenon DEF Server!CountThread, Server!NewThread, Server!env,
       Response!CountThread, Response!NewThread, Response!env

LEMMA SameHangUp ==
    ASSUME NEW d
    PROVE  Server!HangUp(d) => Response!HangUp(d)
BY Zenon DEF Server!HangUp, Server!Sessions, Server!env, Server!table,
       Response!HangUp, Response!Sessions, Response!env, Response!table

LEMMA SameRemoveClient ==
    ASSUME NEW d
    PROVE  Server!RemoveClient(d) => Response!RemoveClient(d)
BY Zenon DEF Server!RemoveClient, Server!InLoop, Server!Listen, Server!CallRemoveUser,
       Server!UsersOf, Server!Users, Server!Least, Server!Closed, Server!Socket,
       Server!Nobody, Server!env, Server!table,
       Response!RemoveClient, Response!InLoop, Response!Listen, Response!CallRemoveUser,
       Response!UsersOf, Response!Users, Response!Least, Response!Closed, Response!Socket,
       Response!Nobody, Response!env, Response!table

LEMMA SameAcceptUser ==
    ASSUME NEW l
    PROVE  Server!AcceptUser(l) => Response!AcceptUser(l)
BY Zenon DEF Server!AcceptUser, Server!InLoop, Server!Listen, Server!FreeFds, Server!Fds,
       Server!UsersOf, Server!Users, Server!Least, Server!NewUser, Server!Socket,
       Server!NewThread, Server!Entry, Server!env,
       Response!AcceptUser, Response!InLoop, Response!Listen, Response!FreeFds,
       Response!Fds, Response!UsersOf, Response!Users, Response!Least, Response!NewUser,
       Response!Socket, Response!NewThread, Response!Entry, Response!env

LEMMA SameTerminate ==
    ASSUME NEW a
    PROVE  Server!Terminate(a) => Response!Terminate(a)
BY Zenon DEF Server!Terminate, Server!ThreadsOf, Server!Least, Server!JoinRefused, Server!Actors,
       Server!Entry, Server!env,
       Response!Terminate, Response!ThreadsOf, Response!Least, Response!JoinRefused,
       Response!Actors, Response!Entry, Response!env

LEMMA SameJoin ==
    ASSUME NEW a
    PROVE  Server!Join(a) => Response!Join(a)
BY Zenon DEF Server!Join, Server!Entry, Server!env,
       Response!Join, Response!Entry, Response!env

LEMMA SameLeaveLoop ==
    ASSUME NEW a
    PROVE  Server!LeaveLoop(a) => Response!LeaveLoop(a)
BY Zenon DEF Server!LeaveLoop, Server!ThreadsOf, Server!env, Server!table,
       Response!LeaveLoop, Response!ThreadsOf, Response!env, Response!table

LEMMA SameCloseUser ==
    ASSUME NEW a
    PROVE  Server!CloseUser(a) => Response!CloseUser(a)
BY Zenon DEF Server!CloseUser, Server!ThreadsOf, Server!Closed, Server!Socket, Server!Nobody,
       Server!env, Server!table,
       Response!CloseUser, Response!ThreadsOf, Response!Closed, Response!Socket,
       Response!Nobody, Response!env, Response!table

LEMMA SameClearUser ==
    ASSUME NEW a
    PROVE  Server!ClearUser(a) => Response!ClearUser(a)
BY Zenon DEF Server!ClearUser, Server!NoUser, Server!Nobody, Server!NotCalled, Server!env,
       Server!table,
       Response!ClearUser, Response!NoUser, Response!Nobody, Response!NotCalled,
       Response!env, Response!table

LEMMA SameBeginRound ==
    ASSUME NEW i
    PROVE  Server!BeginRound(i) => Response!BeginRound(i)
BY Zenon DEF Server!BeginRound, Server!InThread, Server!Readable, Server!NewFiles,
       Server!OldFiles, Server!User, Server!KeyDate, Server!GroupMatches, Server!env,
       Response!BeginRound, Response!InThread, Response!Readable, Response!NewFiles,
       Response!OldFiles, Response!User, Response!KeyDate, Response!GroupMatches,
       Response!env

LEMMA SameEndThread ==
    ASSUME NEW i
    PROVE  Server!EndThread(i) => Response!EndThread(i)
BY Zenon DEF Server!EndThread, Server!InThread, Server!Readable, Server!NoThread, Server!env,
       Server!table,
       Response!EndThread, Response!InThread, Response!Readable, Response!NoThread,
       Response!env, Response!table

LEMMA SameReadLine ==
    ASSUME NEW i, NEW f
    PROVE  Server!ReadLine(i, f) => Response!ReadLine(i, f)
BY Zenon DEF Server!ReadLine, Server!InThread, Server!Readable, Server!NextLine, Server!env,
       Response!ReadLine, Response!InThread, Response!Readable, Response!NextLine,
       Response!env

\* The main thread
LEMMA SameMain == MainThread => Response!MainThread
<1>1. Response!Fds = Fds
  BY DEF Fds, Response!Fds
<1>2. ASSUME NEW a, RemoveUser(a) PROVE Response!RemoveUser(a)
  BY <1>2, SameTerminate, SameJoin, SameLeaveLoop, SameCloseUser, SameClearUser
     DEF RemoveUser, Server!RemoveUser, Response!RemoveUser
<1> QED
  BY <1>1, <1>2, SamePoll, SameRemoveClient, SameAcceptUser, SameRefuseUser, SameCountThread
     DEF MainThread, Poll, RemoveClient, AcceptUser, Response!MainThread

\* A session thread
LEMMA SameThread ==
    ASSUME NEW i, ThreadProcess(i)
    PROVE  Response!ThreadProcess(i)
<1>0. \A f : Server!Wants(Server!User(i).login, f, Server!NextLine(i, f))
               <=> Response!Wants(Response!User(i).login, f, Response!NextLine(i, f))
  BY Zenon DEF Server!Wants, Server!User, Server!NextLine,
               Response!Wants, Response!User, Response!NextLine
<1>1. \A f : Server!SkipLine(i, f) => Response!SkipLine(i, f)
  BY <1>0, SameReadLine, Zenon DEF Server!SkipLine, Response!SkipLine
<1>2. \A f : Server!SendLine(i, f) => Response!SendLine(i, f)
  BY <1>0, SameReadLine, Zenon
     DEF Server!SendLine, Server!User, Server!NextLine, Server!Sessions,
         Response!SendLine, Response!User, Response!NextLine, Response!Sessions
<1>3. \A f : Server!SendFails(i, f) => Response!SendFails(i, f)
  BY <1>0, SameReadLine, Zenon
     DEF Server!SendFails, Server!User, Server!CallRemoveUser, Server!UsersOf,
         Server!Users, Server!Least, Server!Closed, Server!Socket, Server!Nobody,
         Response!SendFails, Response!User, Response!CallRemoveUser, Response!UsersOf,
         Response!Users, Response!Least, Response!Closed, Response!Socket, Response!Nobody
<1>4. RemoveUser(i) => Response!RemoveUser(i)
  BY SameTerminate, SameJoin, SameLeaveLoop, SameCloseUser, SameClearUser
     DEF RemoveUser, Server!RemoveUser, Response!RemoveUser
<1> QED
  BY <1>1, <1>2, <1>3, <1>4, SameBeginRound, SameEndThread
     DEF ThreadProcess, OpenEventFile, SkipEvent, SendEvent, SendFails, EndThread,
         Response!ThreadProcess

\* What a step of the event server is to the response server
LEMMA SameStep ==
    ASSUME [Next]_vars
    PROVE  \/ [Response!Next]_(Response!vars) /\ (UNCHANGED today \/ today' \in Dates)
           \/ WriteBlockEventFile
<1>1. CASE NextDay \/ UNCHANGED vars
  BY <1>1 DEF NextDay, vars, Response!vars, Response!env, Response!table
<1>2. CASE InitSystemDate \/ InitServer \/ Stop
  BY <1>2, SameInitSystemDate, SameInitServer, SameStop
     DEF InitSystemDate, InitServer, Stop, Response!Next
<1>3. ASSUME NEW d \in Fds, HangUp(d) PROVE Response!Next /\ UNCHANGED today
  <2>1. Response!Fds = Fds
    BY DEF Fds, Response!Fds
  <2>2. Response!HangUp(d) /\ UNCHANGED today
    BY <1>3, SameHangUp DEF HangUp
  <2> QED
    BY <2>1, <2>2 DEF Response!Next
<1>4. CASE MainThread
  BY <1>4, SameMain DEF MainThread, Response!Next
<1>5. ASSUME NEW i \in Sessions, ThreadProcess(i) PROVE Response!Next /\ UNCHANGED today
  <2>1. Response!Sessions = Sessions
    BY DEF Sessions, Response!Sessions
  <2>2. Response!ThreadProcess(i) /\ UNCHANGED today
    BY <1>5, SameThread DEF ThreadProcess
  <2> QED
    BY <2>1, <2>2 DEF Response!Next
<1> QED
  BY <1>1, <1>2, <1>3, <1>4, <1>5 DEF Next

----------------------------------------------------------------------------
(* The invariant of the response server holds of the event server          *)

LEMMA InitInv == Init => IInv
<1>1. Init => Response!IInv
  BY Assumed, SameInit, Response!InitInv DEF Init
<1>2. Init => today \in Dates
  BY DEF Init, Server!Init
<1> QED
  BY <1>1, <1>2 DEF IInv

LEMMA StepInv ==
    ASSUME IInv, [Next]_vars
    PROVE  IInv'
<1>1. CASE [Response!Next]_(Response!vars) /\ (UNCHANGED today \/ today' \in Dates)
  <2>1. Response!IInv'
    BY <1>1, Assumed, Response!StepInv DEF IInv
  <2> QED
    BY <1>1, <2>1 DEF IInv
<1>2. CASE WriteBlockEventFile
  <2>1. PICK f : f = <<today, NodeAPI>>
    OBVIOUS
  <2>2. f \in Files
    BY <2>1 DEF IInv, Files
  <2>3. /\ written[f] < MaxLines /\ written' = [written EXCEPT ![f] = @ + 1]
        /\ UNCHANGED <<today, system_date, main, thread_count, thread, local, remove, send_user,
                       conn, lapse>>
    BY <1>2, <2>1 DEF WriteBlockEventFile
  <2>4. Response!IInv'
    BY <2>2, <2>3, Assumed, Response!AppendInv DEF IInv
  <2> QED
    BY <2>3, <2>4 DEF IInv
<1> QED
  BY <1>1, <1>2, SameStep

LEMMA EventInvariant == Spec => []IInv
<1>1. Init => IInv
  BY InitInv
<1>2. IInv /\ [Next]_vars => IInv'
  BY StepInv
<1> QED
  BY <1>1, <1>2, PTL DEF Spec

----------------------------------------------------------------------------
(* Theorems *)

\* The type invariant of the event server: its tables, its files and the date of
\* the Node process keep the form that the two programs give them.
THEOREM EventTypeCorrect == Spec => []TypeOK
<1>1. Response!TypeOK => Server!TypeOK
  BY DEF Server!TypeOK, Server!EntryType, Server!Sessions, Server!Actors, Server!Users,
         Server!Fds, Server!LineNums, Server!Listen, Server!Nobody,
         Response!TypeOK, Response!EntryType, Response!Sessions, Response!Actors,
         Response!Users, Response!Fds, Response!LineNums, Response!Listen, Response!Nobody
<1>2. IInv => TypeOK
  BY <1>1 DEF IInv, Response!IInv, TypeOK
<1> QED
  BY <1>2, EventInvariant, PTL

\* A service wants the events behind the datakey it logged in with.
LEMMA EventWanted ==
    ASSUME NEW l, l.name = NodeAPI, NEW f \in Files, NEW n \in LineNums
    PROVE  Response!Wants(l, f, n) <=> l.datakey < f[1] * KeyBase + n
<1>1. DataKey[f, n] = f[1] * KeyBase + n
  BY KeyFacts, Zenon
<1>2. Service[f, n] = NodeAPI
  <2>1. <<f, n>> \in Files \X LineNums
    OBVIOUS
  <2> QED
    BY <2>1, Zenon DEF Service
<1> QED
  BY <1>1, <1>2, Zenon DEF Response!Wants

\* As long as no session thread has removed its own user, a service that has
\* received an event of a day has received every one of that day between its login's
\* datakey and it: however its thread opens, reads and closes the files of
\* events while the Node process appends to them and the date changes.
THEOREM EventGapless == Spec => []EventsWithoutGap
<1>1. ASSUME IInv, lapse = {}, NEW d \in Fds, NEW f \in Files, NEW n \in LineNums,
             Received(d, f, n)
      PROVE  After(d, f, n) /\ \A m \in 1 .. n - 1 : After(d, f, m) => Received(d, f, m)
  <2>1. /\ Response!TypeOK /\ Response!ReceivedInOrder
        /\ Response!Within(conn[d].got, written)
        /\ Response!WithoutGap(conn[d].client, conn[d].got)
    <3>1. d \in Response!Fds
      BY DEF Fds, Response!Fds
    <3> QED
      BY <1>1, <3>1 DEF IInv, Response!IInv, Response!LinesInv, Response!WrittenInv
  <2>2. PICK k \in DOMAIN conn[d].got : conn[d].got[k] = <<f, n>>
    BY <1>1 DEF Received
  <2>3. conn[d].client.name = NodeAPI
    <3>1. conn[d].client \in Logins \cup {Response!Nobody}
      BY <2>1 DEF Response!TypeOK, Fds, Response!Fds
    <3> QED
      BY <3>1 DEF Logins, Response!Nobody
  <2>4. After(d, f, n)
    <3>1. n <= written[f]
      BY <2>1, <2>2 DEF Response!Within
    <3>2. Response!Wants(conn[d].client, f, n)
      <4>1. Response!InOrder(conn[d].client, conn[d].got)
        BY <2>1 DEF Response!ReceivedInOrder, Fds, Response!Fds
      <4> QED
        BY <2>2, <4>1 DEF Response!InOrder
    <3> QED
      BY <2>3, <3>1, <3>2, EventWanted DEF After
  <2>5. ASSUME NEW m \in 1 .. n - 1, After(d, f, m)
        PROVE  Received(d, f, m)
    <3>1. m \in LineNums
      BY BoundAssumption DEF LineNums
    <3>2. Response!Wants(conn[d].client, f, m)
      BY <2>3, <2>5, <3>1, EventWanted DEF After
    <3>3. \E j \in DOMAIN conn[d].got : conn[d].got[j] = <<f, m>>
      BY <2>1, <2>2, <3>2 DEF Response!WithoutGap
    <3> QED
      BY <3>3 DEF Received
  <2> QED
    BY <2>4, <2>5
<1>2. IInv => EventsWithoutGap
  BY <1>1 DEF EventsWithoutGap
<1> QED
  BY <1>2, EventInvariant, PTL
=============================================================================
