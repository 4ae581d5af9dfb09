----------------------- MODULE RequestTransactProofs -----------------------
(***************************************************************************)
(* Proofs about RequestTransact, for every set of days, groups and sockets,*)
(* every table size and every KeyBase.                                     *)
(***************************************************************************)
EXTENDS RequestTransact, TLAPS

NoCarry == "carry" \notin lapse
Sound   == lapse = {}

\* k is not larger than the datakey m
AtMost(k, m) == ~KeyLess(m, k)

\* Nothing is filed under a day that has not come.
FutureIsEmpty ==
    /\ \A f \in Files : f[1] > system_date => reqQue[f] = <<>>
    /\ \A d \in Dates : d > system_date => datakeyFile[d] = AbsentFile
    /\ target <= system_date
    /\ pc = "write" => \A d \in Dates : d > target => datakeyFile[d] = AbsentFile

\* No datakey, in memory or on disk, belongs to a day that has not come.
KeyDates ==
    NoCarry =>
        /\ unique_datakey.date <= system_date
        /\ datakey.date <= system_date
        /\ pc = "write" => datakey.date <= target
        /\ \A d \in Dates : datakeyFile[d].key.date <= system_date

\* What the running process remembers covers every line on disk.
MemoryCovers ==
    Sound /\ pc # "down" =>
        /\ \A f \in Files : \A i \in DOMAIN reqQue[f] : AtMost(reqQue[f][i], unique_datakey)
        /\ pc \in {"append", "truncate", "write"} => datakey = unique_datakey
        /\ pc = "append" =>
              \A f \in Files : \A i \in DOMAIN reqQue[f] : KeyLess(reqQue[f][i], datakey)

\* So does the datakey file a restart would read, except between the append
\* and the end of WriteDataKeyToFile.
DiskCovers ==
    Sound /\ pc \notin {"truncate", "write"} =>
        \A f \in Files : \A i \in DOMAIN reqQue[f] :
            AtMost(reqQue[f][i], ReadDataKeyFromFile)

\* The datakey about to be answered is in a queue file of the group.
PendingIsQueued ==
    pc \in {"truncate", "write", "reply"} /\ datakey # ErrorKey =>
        \E d \in Dates : \E i \in DOMAIN reqQue[<<d, account_group>>] :
            reqQue[<<d, account_group>>][i] = datakey

\* A key on its way into a queue file is a real one.
RealKey == pc \in {"append", "truncate", "write"} => datakey \in Keys

IInv ==
    /\ TypeOK
    /\ RealKey
    /\ FutureIsEmpty
    /\ KeyDates
    /\ KeyDateNeverAhead
    /\ MemoryCovers
    /\ DiskCovers
    /\ KeysUnique
    /\ FileKeysIncrease

----------------------------------------------------------------------------
(* Datakeys *)

LEMMA ConstantFacts ==
    /\ Dates \subseteq Nat /\ 0 \notin Dates
    /\ KeyBase \in Nat /\ KeyBase > 1
    /\ Fds \subseteq Nat /\ 0 \notin Fds
    /\ MaxUsers \in Nat /\ MaxUsers > 0
BY DatesAssumption, KeyBaseAssumption, FdsAssumption, MaxUsersAssumption

LEMMA ZeroIsKey == ZeroKey \in Keys
BY ConstantFacts DEF ZeroKey, Keys

\* NextKey yields a datakey, and without a carry a larger one of the same day.
LEMMA NextKeyFacts ==
    ASSUME NEW k \in Keys
    PROVE  /\ NextKey(k) \in Keys
           /\ k.seq + 1 # KeyBase => KeyLess(k, NextKey(k)) /\ NextKey(k).date = k.date
BY ConstantFacts DEF Keys, NextKey, KeyLess

\* Resetting the counter for day d yields a datakey of that day.
LEMMA CounterForFacts ==
    ASSUME NEW k \in Keys, NEW d \in Dates
    PROVE  CounterFor(k, d) \in Keys /\ CounterFor(k, d).date = d
BY ConstantFacts DEF CounterFor, Keys, FirstKey

\* Smaller-than on datakeys is a strict total order.
LEMMA KeyOrder ==
    ASSUME NEW a \in Keys, NEW b \in Keys, NEW c \in Keys
    PROVE  /\ ~KeyLess(a, a)
           /\ KeyLess(a, b) => ~KeyLess(b, a)
           /\ AtMost(a, b) /\ KeyLess(b, c) => KeyLess(a, c)
           /\ KeyLess(a, b) => AtMost(a, b)
           /\ AtMost(a, a)
BY ConstantFacts DEF Keys, KeyLess, AtMost

\* A line appended to a queue file keeps its place after the earlier ones.
LEMMA AppendFacts ==
    ASSUME NEW s \in Seq(Keys), NEW k \in Keys
    PROVE  /\ Append(s, k) \in Seq(Keys)
           /\ DOMAIN s = 1 .. Len(s) /\ Len(s) \in Nat
           /\ DOMAIN Append(s, k) = 1 .. (Len(s) + 1)
           /\ \A i \in DOMAIN s : Append(s, k)[i] = s[i]
           /\ Append(s, k)[Len(s) + 1] = k
OBVIOUS

----------------------------------------------------------------------------
(* Type correctness *)

TypeInv == TypeOK /\ RealKey

LEMMA TypeInit == Init => TypeInv
<1> SUFFICES ASSUME Init PROVE TypeInv
  OBVIOUS
<1>1. ZeroKey \in Keys
  BY ConstantFacts DEF ZeroKey, Keys
<1>2. AbsentFile \in DatakeyFile
  BY <1>1 DEF AbsentFile, DatakeyFile
<1>3. reqQue \in [Files -> Seq(Keys)]
  BY DEF Init
<1>4. datakeyFile \in [Dates -> DatakeyFile]
  BY <1>2 DEF Init
<1>5. request_user \in [Offsets -> Fds \cup {0}]
  BY DEF Init, NoUsers
<1> QED
  BY <1>1, <1>3, <1>4, <1>5 DEF Init, TypeInv, TypeOK, RealKey, PCs

LEMMA TypeStep == TypeInv /\ [Next]_vars => TypeInv'
<1> SUFFICES ASSUME TypeInv, [Next]_vars PROVE TypeInv'
  OBVIOUS
<1> USE ConstantFacts DEF TypeInv, TypeOK, RealKey, memory, disk, users, PCs
<1>1. CASE RollDate
  BY <1>1 DEF RollDate
<1>2. CASE SetStatus
  BY <1>2 DEF SetStatus
<1>3. CASE InitServer
  <2>1. ReadDataKeyFromFile \in Keys
    BY DEF ReadDataKeyFromFile, DatakeyFile, FirstKey, Keys
  <2> QED
    BY <1>3, <2>1 DEF InitServer, NoUsers, Offsets
<1>4. CASE Crash \/ Interrupt
  <2>1. NoUsers \in [Offsets -> Fds \cup {0}]
    BY DEF NoUsers
  <2> QED
    BY <1>4, <2>1, ZeroIsKey DEF Stop, Crash, Interrupt
<1>5. ASSUME NEW fd \in Fds, AcceptUser(fd) PROVE TypeInv'
  BY <1>5 DEF AcceptUser
<1>6. ASSUME NEW fd \in Fds, RemoveUser(fd) PROVE TypeInv'
  BY <1>6 DEF RemoveUser
<1>8. ASSUME NEW fd \in Fds, NEW type \in ReqTypes, NEW g \in Groups,
             ReceiveRequest(fd, type, g)
      PROVE  TypeInv'
  BY <1>8 DEF ReceiveRequest
<1>9. CASE AllocDatakey
  <2>1. NextKey(CounterFor(unique_datakey, system_date)) \in Keys
    BY NextKeyFacts, CounterForFacts
  <2> QED
    BY <1>9, <2>1 DEF AllocDatakey
<1>10. CASE AppendLine
  <2>1. datakey \in Keys
    BY <1>10 DEF AppendLine
  <2>2. reqQue' \in [Files -> Seq(Keys)]
    BY <1>10, <2>1, AppendFacts DEF AppendLine
  <2> QED
    BY <1>10, <2>1, <2>2 DEF AppendLine
<1>11. CASE AppendFails
  BY <1>11 DEF AppendFails
<1>12. CASE TruncateDatakey
  <2>1. Holding(ZeroKey) \in DatakeyFile
    BY DEF Holding, ZeroKey, DatakeyFile, Keys
  <2> QED
    BY <1>12, <2>1 DEF TruncateDatakey
<1>13. CASE WriteDatakey
  <2>1. datakey \in Keys
    BY <1>13 DEF WriteDatakey
  <2>2. Holding(datakey) \in DatakeyFile
    BY <2>1 DEF Holding, DatakeyFile
  <2> QED
    BY <1>13, <2>1, <2>2 DEF WriteDatakey
<1>14. CASE SendResponse
  <2>1. [key |-> datakey, group |-> account_group] \in Answers
    BY DEF Answers
  <2> QED
    BY <1>14, <2>1, ZeroIsKey DEF SendResponse
<1>15. CASE UNCHANGED vars
  BY <1>15 DEF vars
<1> QED
  BY <1>1, <1>2, <1>3, <1>4, <1>5, <1>6, <1>8, <1>9, <1>10, <1>11, <1>12,
     <1>13, <1>14, <1>15 DEF Next, Insert

\* The state of the request server keeps its types, and what it appends to a
\* queue file or writes to a datakey file is always a datakey, never the -1.
THEOREM RequestTypeCorrect == Spec => []TypeOK
<1>1. Spec => []TypeInv
  BY TypeInit, TypeStep, PTL DEF Spec
<1>2. TypeInv => TypeOK
  BY DEF TypeInv
<1> QED
  BY <1>1, <1>2, PTL

----------------------------------------------------------------------------
(* Uniqueness and order of datakeys *)

LEMMA InvInit == Init => IInv
<1> SUFFICES ASSUME Init PROVE IInv
  OBVIOUS
<1>1. TypeInv
  BY TypeInit
<1>2. \A f \in Files : reqQue[f] = <<>> /\ DOMAIN reqQue[f] = {}
  BY DEF Init
<1>3. KeyDates
  <2>1. \A d \in Dates : datakeyFile[d].key = ZeroKey
    BY DEF Init, AbsentFile
  <2> QED
    BY <2>1, ConstantFacts DEF Init, KeyDates, ZeroKey
<1>4. FutureIsEmpty
  BY <1>2, ConstantFacts DEF Init, FutureIsEmpty
<1> QED
  BY <1>1, <1>2, <1>3, <1>4 DEF Init, IInv, TypeInv, KeyDateNeverAhead, MemoryCovers,
     DiskCovers, KeysUnique, FileKeysIncrease

\* What the date-and-key part of the invariant depends on.
keyState == <<system_date, reqQue, datakeyFile, pc, unique_datakey, datakey, target, lapse>>

\* A step that leaves all of it alone, or only moves pc from "loop" to "alloc".
LEMMA InvQuiet ==
    ASSUME IInv, TypeInv',
           UNCHANGED <<system_date, reqQue, datakeyFile, unique_datakey, datakey,
                       target, lapse>>,
           pc' = pc \/ (pc = "loop" /\ pc' = "alloc")
    PROVE  IInv'
<1>1. FutureIsEmpty' /\ KeyDates'
  BY DEF IInv, FutureIsEmpty, KeyDates, NoCarry
<1>2. KeyDateNeverAhead' /\ KeysUnique' /\ FileKeysIncrease'
  BY DEF IInv, KeyDateNeverAhead, KeysUnique, FileKeysIncrease
<1>3. MemoryCovers'
  BY DEF IInv, MemoryCovers, Sound
<1>4. DiskCovers'
  BY DEF IInv, DiskCovers, Sound, ReadDataKeyFromFile
<1> QED
  BY <1>1, <1>2, <1>3, <1>4 DEF IInv, TypeInv

\* A new day: no line and no datakey file carries it yet, and its first datakey
\* is above everything queued before.
LEMMA InvRollDate == ASSUME IInv, TypeInv', RollDate PROVE IInv'
<1>1. PICK d \in Dates : d > system_date /\ system_date' = d
  BY DEF RollDate
<1>2. /\ system_date \in Nat /\ d \in Nat /\ target \in Nat
      /\ UNCHANGED <<reqQue, datakeyFile, unique_datakey, datakey, target, lapse, pc>>
      /\ \A e \in Dates : e \in Nat
      /\ \A f \in Files : f[1] \in Nat
  BY ConstantFacts DEF RollDate, IInv, TypeOK, disk, Files
<1>3. FutureIsEmpty'
  <2>1. \A n \in Nat : n > d => n > system_date
    BY <1>1, <1>2
  <2>2. \A f \in Files : f[1] > d => reqQue[f] = <<>>
    BY <1>2, <2>1 DEF IInv, FutureIsEmpty
  <2>3. \A e \in Dates : e > d => datakeyFile[e] = AbsentFile
    BY <1>2, <2>1 DEF IInv, FutureIsEmpty
  <2>4. target <= d
    BY <1>1, <1>2 DEF IInv, FutureIsEmpty
  <2> QED
    BY <1>1, <1>2, <2>2, <2>3, <2>4 DEF IInv, FutureIsEmpty
<1>4. KeyDates'
  <2>1. ASSUME NoCarry
        PROVE  unique_datakey.date <= d /\ datakey.date <= d
               /\ \A e \in Dates : datakeyFile[e].key.date <= d
    <3>1. /\ unique_datakey.date \in Nat /\ datakey.date \in Int
          /\ \A e \in Dates : datakeyFile[e].key.date \in Nat
      BY DEF IInv, TypeOK, Keys, DatakeyFile, ErrorKey
    <3> QED
      BY <1>1, <1>2, <2>1, <3>1 DEF IInv, KeyDates
  <2> QED
    BY <1>1, <1>2, <2>1 DEF IInv, KeyDates, NoCarry
<1>5. MemoryCovers'
  BY <1>2 DEF IInv, MemoryCovers, Sound
<1>6. DiskCovers'
  <2> SUFFICES ASSUME Sound, pc \notin {"truncate", "write"},
                      NEW f \in Files, NEW i \in DOMAIN reqQue[f]
               PROVE  AtMost(reqQue[f][i], ReadDataKeyFromFile')
    BY <1>2 DEF DiskCovers, Sound
  <2>1. ReadDataKeyFromFile' = FirstKey(d)
    BY <1>1, <1>2 DEF IInv, FutureIsEmpty, ReadDataKeyFromFile, AbsentFile
  <2>2. reqQue[f][i] \in Keys /\ reqQue[f][i].date <= f[1] /\ f[1] <= system_date
    <3>1. reqQue[f] \in Seq(Keys) /\ reqQue[f] # <<>>
      BY DEF IInv, TypeOK
    <3>2. f[1] <= system_date
      BY <1>2, <3>1 DEF IInv, FutureIsEmpty
    <3> QED
      BY <3>1, <3>2 DEF IInv, KeyDateNeverAhead, Sound
  <2> QED
    BY <1>1, <1>2, <2>1, <2>2 DEF AtMost, KeyLess, FirstKey, Keys
<1> QED
  BY <1>2, <1>3, <1>4, <1>5, <1>6 DEF IInv, TypeInv, KeyDateNeverAhead, KeysUnique,
     FileKeysIncrease

\* A restart reads a counter that covers every line.
LEMMA InvInitServer == ASSUME IInv, TypeInv', InitServer PROVE IInv'
<1>1. /\ UNCHANGED <<system_date, reqQue, datakeyFile, datakey, target, lapse>>
      /\ pc = "down" /\ pc' = "loop"
      /\ unique_datakey' = ReadDataKeyFromFile
  BY DEF InitServer, memory, disk
<1>2. FutureIsEmpty'
  BY <1>1 DEF IInv, FutureIsEmpty
<1>3. KeyDates'
  BY <1>1, ConstantFacts
     DEF IInv, TypeOK, KeyDates, NoCarry, ReadDataKeyFromFile, FirstKey
<1>4. MemoryCovers'
  BY <1>1 DEF IInv, MemoryCovers, DiskCovers, Sound
<1>5. DiskCovers'
  BY <1>1 DEF IInv, DiskCovers, Sound, ReadDataKeyFromFile
<1> QED
  BY <1>1, <1>2, <1>3, <1>4, <1>5 DEF IInv, TypeInv, KeyDateNeverAhead, KeysUnique,
     FileKeysIncrease

\* A kill leaves the files as they are: between the append and the end of the
\* datakey write it ends soundness, elsewhere the datakey file covers the lines.
LEMMA InvStop == ASSUME IInv, TypeInv', Crash \/ Interrupt PROVE IInv'
<1>1. /\ UNCHANGED <<system_date, reqQue, datakeyFile, target>>
      /\ pc # "down" /\ pc' = "down"
      /\ unique_datakey'.date = 0 /\ datakey'.date = 0
      /\ Sound' => Sound /\ pc \notin {"truncate", "write"}
      /\ NoCarry' => NoCarry
  BY DEF Crash, Interrupt, Stop, memory, disk, Sound, NoCarry, ZeroKey
<1>2. FutureIsEmpty' /\ KeyDates'
  BY <1>1, ConstantFacts DEF IInv, TypeOK, FutureIsEmpty, KeyDates
<1>3. MemoryCovers' /\ DiskCovers'
  BY <1>1 DEF IInv, MemoryCovers, DiskCovers, ReadDataKeyFromFile
<1>4. KeyDateNeverAhead' /\ KeysUnique' /\ FileKeysIncrease'
  BY <1>1 DEF IInv, KeyDateNeverAhead, KeysUnique, FileKeysIncrease, Sound, NoCarry
<1> QED
  BY <1>1, <1>2, <1>3, <1>4 DEF IInv, TypeInv

\* The answer only forgets the local datakey.
LEMMA InvSendResponse == ASSUME IInv, TypeInv', SendResponse PROVE IInv'
<1>1. /\ UNCHANGED <<system_date, reqQue, datakeyFile, unique_datakey, target, lapse>>
      /\ pc = "reply" /\ pc' = "loop" /\ datakey'.date = 0
  BY DEF SendResponse, memory, disk, ZeroKey
<1>2. FutureIsEmpty' /\ KeyDates'
  BY <1>1, ConstantFacts DEF IInv, TypeOK, FutureIsEmpty, KeyDates, NoCarry
<1>3. MemoryCovers' /\ DiskCovers'
  BY <1>1 DEF IInv, MemoryCovers, DiskCovers, Sound, ReadDataKeyFromFile
<1>4. KeyDateNeverAhead' /\ KeysUnique' /\ FileKeysIncrease'
  BY <1>1 DEF IInv, KeyDateNeverAhead, KeysUnique, FileKeysIncrease
<1> QED
  BY <1>1, <1>2, <1>3, <1>4 DEF IInv, TypeInv

\* The allocated datakey is above everything queued.
LEMMA InvAllocDatakey == ASSUME IInv, TypeInv', AllocDatakey PROVE IInv'
<1> DEFINE k == CounterFor(unique_datakey, system_date)
<1>1. /\ UNCHANGED <<system_date, reqQue, datakeyFile, target>>
      /\ pc = "alloc" /\ pc' = "append"
      /\ datakey' = NextKey(k) /\ unique_datakey' = NextKey(k)
  BY DEF AllocDatakey, memory, disk
<1>2. /\ system_date \in Dates /\ system_date \in Nat
      /\ unique_datakey \in Keys
      /\ k \in Keys /\ NextKey(k) \in Keys /\ k.date = system_date
  BY CounterForFacts, NextKeyFacts, ConstantFacts DEF IInv, TypeOK
<1>3. /\ NoCarry' => NoCarry /\ k.seq + 1 # KeyBase
      /\ Sound' => Sound /\ NoCarry /\ k.seq + 1 # KeyBase
  BY DEF AllocDatakey, NoCarry, Sound
<1>4. FutureIsEmpty'
  BY <1>1 DEF IInv, FutureIsEmpty
<1>5. KeyDates'
  BY <1>1, <1>2, <1>3, NextKeyFacts DEF IInv, KeyDates
<1>6. ASSUME Sound', NEW f \in Files, NEW i \in DOMAIN reqQue[f]
      PROVE  KeyLess(reqQue[f][i], NextKey(k)) /\ AtMost(reqQue[f][i], NextKey(k))
  <2>1. reqQue[f][i] \in Keys
    BY DEF IInv, TypeOK
  <2>2. AtMost(reqQue[f][i], unique_datakey) /\ unique_datakey.date <= system_date
    BY <1>1, <1>3, <1>6 DEF IInv, MemoryCovers, KeyDates
  <2>3. AtMost(reqQue[f][i], k)
    BY <1>2, <2>1, <2>2 DEF CounterFor, AtMost, KeyLess, FirstKey, Keys
  <2>4. KeyLess(k, NextKey(k))
    BY <1>2, <1>3, <1>6, NextKeyFacts
  <2> QED
    BY <1>2, <2>1, <2>3, <2>4, KeyOrder
<1>7. MemoryCovers'
  BY <1>1, <1>6 DEF MemoryCovers
<1>8. DiskCovers'
  BY <1>1, <1>3 DEF IInv, DiskCovers, ReadDataKeyFromFile
<1>9. KeyDateNeverAhead' /\ KeysUnique' /\ FileKeysIncrease'
  BY <1>1, <1>3 DEF IInv, KeyDateNeverAhead, KeysUnique, FileKeysIncrease, Sound, NoCarry
<1> QED
  BY <1>4, <1>5, <1>7, <1>8, <1>9 DEF IInv, TypeInv

\* The appended line carries the largest datakey so far.
LEMMA InvAppendLine == ASSUME IInv, TypeInv', AppendLine PROVE IInv'
<1> DEFINE F == <<system_date, account_group>>
           n == Len(reqQue[F])
<1>1. /\ UNCHANGED <<system_date, datakeyFile, unique_datakey, datakey, target, lapse>>
      /\ pc = "append" /\ pc' = "truncate"
      /\ reqQue' = [reqQue EXCEPT ![F] = Append(@, datakey)]
  BY DEF AppendLine, memory
<1>2. /\ F \in Files /\ F[1] = system_date
      /\ datakey \in Keys
      /\ reqQue \in [Files -> Seq(Keys)]
      /\ system_date \in Nat
      /\ \A f \in Files : f[1] \in Nat
  BY <1>1, ConstantFacts DEF IInv, TypeOK, RealKey, Files
<1>3. /\ \A f \in Files : f # F => reqQue'[f] = reqQue[f]
      /\ reqQue'[F] = Append(reqQue[F], datakey)
      /\ DOMAIN reqQue'[F] = DOMAIN reqQue[F] \cup {n + 1}
      /\ DOMAIN reqQue[F] = 1 .. n /\ n \in Nat
      /\ \A i \in DOMAIN reqQue[F] : reqQue'[F][i] = reqQue[F][i]
      /\ reqQue'[F][n + 1] = datakey
  <2>1. reqQue[F] \in Seq(Keys) /\ datakey \in Keys
    BY <1>2
  <2>2. /\ \A f \in Files : f # F => reqQue'[f] = reqQue[f]
        /\ reqQue'[F] = Append(reqQue[F], datakey)
    BY <1>1, <1>2
  <2>3. /\ DOMAIN Append(reqQue[F], datakey) = 1 .. (n + 1)
        /\ DOMAIN reqQue[F] = 1 .. n /\ n \in Nat
        /\ \A i \in DOMAIN reqQue[F] : Append(reqQue[F], datakey)[i] = reqQue[F][i]
        /\ Append(reqQue[F], datakey)[n + 1] = datakey
    BY <2>1, AppendFacts
  <2>4. 1 .. (n + 1) = (1 .. n) \cup {n + 1}
    BY <2>3
  <2> HIDE DEF F, n
  <2> QED
    BY <2>2, <2>3, <2>4
\* every line is either an old one or the appended one
<1>4. ASSUME NEW f \in Files, NEW i \in DOMAIN reqQue'[f]
      PROVE  \/ i \in DOMAIN reqQue[f] /\ reqQue'[f][i] = reqQue[f][i]
             \/ f = F /\ i = n + 1 /\ reqQue'[f][i] = datakey
  BY <1>3
<1>5. FutureIsEmpty'
  <2>1. \A f \in Files : f[1] > system_date => f # F
    BY <1>2
  <2> QED
    BY <1>1, <1>3, <2>1 DEF IInv, FutureIsEmpty
<1>6. KeyDates'
  BY <1>1 DEF IInv, KeyDates, NoCarry
<1>7. KeyDateNeverAhead'
  <2>1. NoCarry => datakey.date <= F[1]
    BY <1>2 DEF IInv, KeyDates
  <2> QED
    BY <1>1, <1>4, <2>1 DEF IInv, KeyDateNeverAhead, NoCarry
<1>8. MemoryCovers'
  <2>1. Sound => datakey = unique_datakey /\ AtMost(datakey, unique_datakey)
    BY <1>1, <1>2, KeyOrder DEF IInv, MemoryCovers
  <2> QED
    BY <1>1, <1>4, <2>1 DEF IInv, MemoryCovers, Sound
<1>9. DiskCovers'
  BY <1>1 DEF DiskCovers
\* the old lines are all below the new one
<1>10. ASSUME Sound, NEW f \in Files, NEW i \in DOMAIN reqQue[f]
       PROVE  KeyLess(reqQue[f][i], datakey) /\ reqQue[f][i] # datakey
  <2>1. reqQue[f][i] \in Keys
    BY <1>2
  <2>2. KeyLess(reqQue[f][i], datakey)
    BY <1>1, <1>10 DEF IInv, MemoryCovers
  <2> QED
    BY <1>2, <2>1, <2>2, KeyOrder
<1>11. KeysUnique'
  <2> SUFFICES ASSUME Sound,
                      NEW f \in Files, NEW h \in Files,
                      NEW i \in DOMAIN reqQue'[f], NEW j \in DOMAIN reqQue'[h],
                      reqQue'[f][i] = reqQue'[h][j]
               PROVE  f = h /\ i = j
    BY <1>1 DEF KeysUnique, Sound
  <2>1. CASE i \in DOMAIN reqQue[f] /\ reqQue'[f][i] = reqQue[f][i]
    <3>1. j \in DOMAIN reqQue[h] /\ reqQue'[h][j] = reqQue[h][j]
      BY <1>4, <1>10, <2>1
    <3>2. reqQue[f][i] = reqQue[h][j]
      BY <2>1, <3>1
    <3>3. \A a \in DOMAIN reqQue[f], b \in DOMAIN reqQue[h] :
              reqQue[f][a] = reqQue[h][b] => f = h /\ a = b
      BY DEF IInv, KeysUnique, Sound
    <3> QED
      BY <2>1, <3>1, <3>2, <3>3
  <2>2. CASE f = F /\ i = n + 1 /\ reqQue'[f][i] = datakey
    <3>1. ~(j \in DOMAIN reqQue[h] /\ reqQue'[h][j] = reqQue[h][j])
      BY <1>10, <2>2
    <3>2. h = F /\ j = n + 1
      BY <1>4, <3>1
    <3> QED
      BY <2>2, <3>2
  <2> QED
    BY <1>4, <2>1, <2>2
<1>12. FileKeysIncrease'
  <2> SUFFICES ASSUME Sound, NEW f \in Files,
                      NEW i \in DOMAIN reqQue'[f], NEW j \in DOMAIN reqQue'[f], i < j
               PROVE  KeyLess(reqQue'[f][i], reqQue'[f][j])
    BY <1>1 DEF FileKeysIncrease, Sound
  <2>1. CASE j \in DOMAIN reqQue[f] /\ reqQue'[f][j] = reqQue[f][j]
    <3>1. ~(f = F /\ i = n + 1)
      <4>1. f = F => j \in 1 .. n
        BY <1>3, <2>1
      <4> QED
        BY <1>3, <4>1
    <3>2. i \in DOMAIN reqQue[f] /\ reqQue'[f][i] = reqQue[f][i]
      BY <1>4, <3>1
    <3> QED
      BY <2>1, <3>2 DEF IInv, FileKeysIncrease, Sound
  <2>2. CASE f = F /\ j = n + 1 /\ reqQue'[f][j] = datakey
    <3>1. i \in DOMAIN reqQue[f] /\ reqQue'[f][i] = reqQue[f][i]
      BY <1>3, <1>4, <2>2
    <3> QED
      BY <1>10, <2>2, <3>1
  <2> QED
    BY <1>4, <2>1, <2>2
<1> QED
  BY <1>5, <1>6, <1>7, <1>8, <1>9, <1>11, <1>12 DEF IInv, TypeInv

\* The allocated datakey is dropped: nothing on disk changes.
LEMMA InvAppendFails == ASSUME IInv, TypeInv', AppendFails PROVE IInv'
<1>1. /\ UNCHANGED <<system_date, reqQue, datakeyFile, unique_datakey, target, lapse>>
      /\ pc = "append" /\ pc' = "reply" /\ datakey' = ErrorKey
  BY DEF AppendFails, memory, disk
<1>2. FutureIsEmpty'
  BY <1>1 DEF IInv, FutureIsEmpty
<1>3. KeyDates'
  <2>1. ErrorKey.date <= system_date
    BY ConstantFacts DEF IInv, TypeOK, ErrorKey
  <2> QED
    BY <1>1, <2>1 DEF IInv, KeyDates, NoCarry
<1>4. MemoryCovers'
  BY <1>1 DEF IInv, MemoryCovers, Sound
<1>5. DiskCovers'
  BY <1>1 DEF IInv, DiskCovers, Sound, ReadDataKeyFromFile
<1> QED
  BY <1>1, <1>2, <1>3, <1>4, <1>5 DEF IInv, TypeInv, KeyDateNeverAhead, KeysUnique,
     FileKeysIncrease

\* Only the file of the current day is emptied.
LEMMA InvTruncateDatakey == ASSUME IInv, TypeInv', TruncateDatakey PROVE IInv'
<1>1. /\ UNCHANGED <<system_date, reqQue, unique_datakey, datakey, lapse>>
      /\ pc = "truncate" /\ pc' = "write" /\ target' = system_date
      /\ datakeyFile' = [datakeyFile EXCEPT ![system_date] = Holding(ZeroKey)]
  BY DEF TruncateDatakey, memory
<1>2. /\ system_date \in Dates /\ system_date \in Nat
      /\ \A d \in Dates : d \in Nat
      /\ \A d \in Dates : d # system_date => datakeyFile'[d] = datakeyFile[d]
      /\ datakeyFile'[system_date].key.date = 0
  BY <1>1, ConstantFacts DEF IInv, TypeOK, Holding, ZeroKey
<1>3. FutureIsEmpty'
  <2>1. \A d \in Dates : d > system_date => datakeyFile'[d] = AbsentFile
    BY <1>2 DEF IInv, FutureIsEmpty
  <2>2. target' <= system_date
    BY <1>1, <1>2
  <2> QED
    BY <1>1, <2>1, <2>2 DEF IInv, FutureIsEmpty
<1>4. KeyDates'
  BY <1>1, <1>2 DEF IInv, KeyDates, NoCarry
<1>5. MemoryCovers'
  BY <1>1 DEF IInv, MemoryCovers, Sound
<1>6. DiskCovers'
  BY <1>1 DEF DiskCovers
<1> QED
  BY <1>1, <1>3, <1>4, <1>5, <1>6 DEF IInv, TypeInv, KeyDateNeverAhead, KeysUnique,
     FileKeysIncrease

\* The datakey file covers every line again, also when the day has changed
\* since it was emptied: then no file exists yet for the new day.
LEMMA InvWriteDatakey == ASSUME IInv, TypeInv', WriteDatakey PROVE IInv'
<1>1. /\ UNCHANGED <<system_date, reqQue, unique_datakey, datakey, target, lapse>>
      /\ pc = "write" /\ pc' = "reply"
      /\ datakeyFile' = [datakeyFile EXCEPT ![target] = Holding(datakey)]
  BY DEF WriteDatakey, memory
<1>2. /\ target \in Dates /\ target \in Nat /\ datakey \in Keys
      /\ system_date \in Dates /\ system_date \in Nat
      /\ \A d \in Dates : d \in Nat
      /\ \A d \in Dates : d # target => datakeyFile'[d] = datakeyFile[d]
      /\ datakeyFile'[target] = Holding(datakey)
      /\ target <= system_date
  BY <1>1, ConstantFacts DEF IInv, TypeOK, RealKey, FutureIsEmpty
<1>3. FutureIsEmpty'
  <2>1. \A d \in Dates : d > system_date => d # target
    BY <1>2
  <2> QED
    BY <1>1, <1>2, <2>1 DEF IInv, FutureIsEmpty
<1>4. KeyDates'
  BY <1>1, <1>2 DEF IInv, KeyDates, NoCarry, Holding
<1>5. MemoryCovers'
  BY <1>1 DEF IInv, MemoryCovers, Sound
<1>6. DiskCovers'
  <2> SUFFICES ASSUME Sound, NEW f \in Files, NEW i \in DOMAIN reqQue[f]
               PROVE  AtMost(reqQue[f][i], ReadDataKeyFromFile')
    BY <1>1 DEF DiskCovers, Sound
  <2>1. CASE system_date = target
    <3>1. ReadDataKeyFromFile' = unique_datakey
      BY <1>1, <1>2, <2>1 DEF IInv, MemoryCovers, ReadDataKeyFromFile, Holding
    <3> QED
      BY <1>1, <3>1 DEF IInv, MemoryCovers
  <2>2. CASE system_date # target
    <3>1. ReadDataKeyFromFile' = FirstKey(system_date)
      BY <1>1, <1>2, <2>2 DEF IInv, FutureIsEmpty, ReadDataKeyFromFile, AbsentFile
    <3>2. AtMost(reqQue[f][i], unique_datakey) /\ unique_datakey.date <= target
      BY <1>1 DEF IInv, MemoryCovers, KeyDates, Sound, NoCarry
    <3>3. reqQue[f][i] \in Keys /\ unique_datakey \in Keys
      BY DEF IInv, TypeOK
    <3> QED
      BY <1>2, <2>2, <3>1, <3>2, <3>3 DEF AtMost, KeyLess, FirstKey, Keys
  <2> QED
    BY <2>1, <2>2
<1> QED
  BY <1>1, <1>3, <1>4, <1>5, <1>6 DEF IInv, TypeInv, KeyDateNeverAhead, KeysUnique,
     FileKeysIncrease

LEMMA InvStep == IInv /\ [Next]_vars => IInv'
<1> SUFFICES ASSUME IInv, [Next]_vars PROVE IInv'
  OBVIOUS
<1>1. TypeInv'
  BY TypeStep DEF IInv, TypeInv
<1>2. CASE SetStatus \/ UNCHANGED vars
  BY <1>1, <1>2, InvQuiet DEF SetStatus, vars, disk
<1>3. ASSUME NEW fd \in Fds, AcceptUser(fd) \/ RemoveUser(fd) PROVE IInv'
  BY <1>1, <1>3, InvQuiet DEF AcceptUser, RemoveUser, disk, memory
<1>4. ASSUME NEW fd \in Fds, NEW type \in ReqTypes, NEW g \in Groups,
             ReceiveRequest(fd, type, g)
      PROVE  IInv'
  BY <1>1, <1>4, InvQuiet DEF ReceiveRequest, disk, memory
<1> QED
  BY <1>1, <1>2, <1>3, <1>4, InvRollDate, InvInitServer, InvStop, InvSendResponse,
     InvAllocDatakey, InvAppendLine, InvAppendFails, InvTruncateDatakey,
     InvWriteDatakey
     DEF Next, Insert

LEMMA InvHolds == Spec => []IInv
BY InvInit, InvStep, PTL DEF Spec

\* Without a kill between the append of a line and the end of the write of its
\* datakey, and without an exhausted day, datakeys never repeat: neither
\* restarts, nor queue files that cannot be opened, nor a change of date in the
\* middle of InsertRequestQue make them repeat.
THEOREM RequestKeysUnique == Spec => []KeysUnique
BY InvHolds, PTL DEF IInv

\* Under the same condition each queue file is sorted by datakey.
THEOREM RequestFileKeysIncrease == Spec => []FileKeysIncrease
BY InvHolds, PTL DEF IInv

\* No line is filed under a day before its datakey's.
THEOREM RequestKeyDates == Spec => []KeyDateNeverAhead
BY InvHolds, PTL DEF IInv

\* The counter moves back only across a restart.
THEOREM RequestCounterNeverBack == Spec => CounterNeverBack
<1>1. ASSUME IInv, [Next]_vars, pc # "down", pc' # "down", "carry" \notin lapse'
      PROVE  ~KeyLess(unique_datakey', unique_datakey)
  <2>1. unique_datakey \in Keys /\ system_date \in Dates /\ system_date \in Nat
    BY <1>1, ConstantFacts DEF IInv, TypeOK
  <2>2. CASE AllocDatakey
    <3> DEFINE k == CounterFor(unique_datakey, system_date)
    <3>1. /\ k \in Keys /\ NextKey(k) \in Keys /\ k.date = system_date
          /\ unique_datakey' = NextKey(k)
      BY <2>1, <2>2, CounterForFacts, NextKeyFacts DEF AllocDatakey
    <3>2. k.seq + 1 # KeyBase /\ NoCarry
      BY <1>1, <2>2 DEF AllocDatakey, NoCarry
    <3>3. AtMost(unique_datakey, k)
      BY <1>1, <2>1, <3>1, <3>2
         DEF IInv, KeyDates, CounterFor, FirstKey, AtMost, KeyLess, Keys
    <3>4. KeyLess(k, NextKey(k))
      BY <3>1, <3>2, NextKeyFacts
    <3> HIDE DEF k
    <3> QED
      BY <2>1, <3>1, <3>3, <3>4, KeyOrder
  <2>3. CASE UNCHANGED unique_datakey
    BY <2>1, <2>3, KeyOrder
  <2> QED
    BY <1>1, <2>2, <2>3
       DEF Next, Insert, vars, RollDate, SetStatus, InitServer, Stop, Crash, Interrupt, AcceptUser,
           RemoveUser, ReceiveRequest, AppendLine, AppendFails,
           TruncateDatakey, WriteDatakey, SendResponse
<1>2. IInv /\ [Next]_vars =>
        [pc # "down" /\ pc' # "down" /\ "carry" \notin lapse' =>
           ~KeyLess(unique_datakey', unique_datakey)]_vars
  BY <1>1
<1> QED
  BY <1>2, InvHolds, PTL DEF Spec, CounterNeverBack

----------------------------------------------------------------------------
(* Answers *)

AInv == TypeInv /\ PendingIsQueued /\ AnsweredIsQueued

\* A line, once in a file of group g, stays there.
LEMMA LinesStay ==
    ASSUME TypeInv, [Next]_vars, NEW g \in Groups, NEW d \in Dates,
           NEW i \in DOMAIN reqQue[<<d, g>>]
    PROVE  i \in DOMAIN reqQue'[<<d, g>>] /\ reqQue'[<<d, g>>][i] = reqQue[<<d, g>>][i]
<1>1. CASE AppendLine
  <2> DEFINE F == <<system_date, account_group>>
  <2>1. /\ <<d, g>> \in Files /\ F \in Files /\ datakey \in Keys
        /\ reqQue \in [Files -> Seq(Keys)]
        /\ reqQue' = [reqQue EXCEPT ![F] = Append(@, datakey)]
    BY <1>1 DEF AppendLine, TypeInv, TypeOK, RealKey, Files
  <2>2. CASE F = <<d, g>>
    <3> DEFINE s == reqQue[<<d, g>>]
    <3>1. s \in Seq(Keys) /\ reqQue'[<<d, g>>] = Append(s, datakey) /\ i \in DOMAIN s
      BY <2>1, <2>2
    <3> HIDE DEF s
    <3>2. i \in DOMAIN Append(s, datakey) /\ Append(s, datakey)[i] = s[i]
      BY <2>1, <3>1, AppendFacts
    <3> QED
      BY <3>1, <3>2 DEF s
  <2>3. CASE F # <<d, g>>
    BY <2>1, <2>3
  <2> QED
    BY <2>2, <2>3
<1>2. CASE UNCHANGED reqQue
  BY <1>2
<1> QED
  BY <1>1, <1>2
     DEF Next, Insert, vars, disk, RollDate, SetStatus, InitServer, Stop, Crash, Interrupt, AcceptUser,
         RemoveUser, ReceiveRequest, AllocDatakey, AppendFails,
         TruncateDatakey, WriteDatakey, SendResponse

\* key is in some queue file of group g
Filed(key, g) == \E d \in Dates : \E i \in DOMAIN reqQue[<<d, g>>] :
                     reqQue[<<d, g>>][i] = key

LEMMA FiledStays ==
    ASSUME TypeInv, [Next]_vars, NEW g \in Groups, NEW key, Filed(key, g)
    PROVE  Filed(key, g)'
<1>1. PICK d \in Dates : \E i \in DOMAIN reqQue[<<d, g>>] : reqQue[<<d, g>>][i] = key
  BY DEF Filed
<1>2. PICK i \in DOMAIN reqQue[<<d, g>>] : reqQue[<<d, g>>][i] = key
  BY <1>1
<1>3. i \in DOMAIN reqQue'[<<d, g>>] /\ reqQue'[<<d, g>>][i] = key
  BY <1>2, LinesStay
<1> QED
  BY <1>3 DEF Filed

LEMMA AnswersStep == AInv /\ [Next]_vars => AInv'
<1> SUFFICES ASSUME AInv, [Next]_vars PROVE AInv'
  OBVIOUS
<1>1. TypeInv /\ TypeInv' /\ account_group \in Groups /\ account_group' \in Groups
  BY TypeStep DEF AInv, TypeInv, TypeOK
<1>2. PendingIsQueued' /\ AnsweredIsQueued'
  <2>1. /\ PendingIsQueued
           <=> (pc \in {"truncate", "write", "reply"} /\ datakey # ErrorKey
                  => Filed(datakey, account_group))
        /\ PendingIsQueued'
           <=> (pc' \in {"truncate", "write", "reply"} /\ datakey' # ErrorKey
                  => Filed(datakey, account_group)')
        /\ AnsweredIsQueued
           <=> \A a \in answers : a.key # ErrorKey => Filed(a.key, a.group)
        /\ AnsweredIsQueued'
           <=> \A a \in answers' : a.key # ErrorKey => Filed(a.key, a.group)'
    BY DEF PendingIsQueued, AnsweredIsQueued, Filed
  <2>2. \A a \in answers : a.group \in Groups /\ a.key \in Keys \cup {ErrorKey}
    BY DEF AInv, TypeInv, TypeOK, Answers
  <2>3. \A a \in answers : a.key # ErrorKey => Filed(a.key, a.group)'
    <3> SUFFICES ASSUME NEW a \in answers, a.key # ErrorKey
                 PROVE  Filed(a.key, a.group)'
      OBVIOUS
    <3>1. Filed(a.key, a.group) /\ a.group \in Groups
      BY <2>1, <2>2 DEF AInv
    <3> QED
      BY <1>1, <3>1, FiledStays
  <2>4. CASE AppendLine
    <3> DEFINE s == reqQue[<<system_date, account_group>>]
    <3>1. /\ s \in Seq(Keys) /\ datakey \in Keys /\ system_date \in Dates
          /\ reqQue'[<<system_date, account_group>>] = Append(s, datakey)
          /\ datakey' = datakey /\ account_group' = account_group /\ answers' = answers
      BY <1>1, <2>4 DEF AppendLine, TypeInv, TypeOK, RealKey, Files
    <3> HIDE DEF s
    <3>2. Len(s) + 1 \in DOMAIN Append(s, datakey) /\ Append(s, datakey)[Len(s) + 1] = datakey
      BY <3>1, AppendFacts
    <3>3. Filed(datakey, account_group)'
      BY <3>1, <3>2 DEF Filed
    <3> QED
      BY <2>1, <2>3, <3>1, <3>3
  <2>5. CASE AppendFails
    BY <2>1, <2>3, <2>5 DEF AppendFails
  <2>6. CASE TruncateDatakey \/ WriteDatakey
    <3>1. /\ pc \in {"truncate", "write"} /\ datakey' = datakey /\ account_group' = account_group
          /\ answers' = answers /\ reqQue' = reqQue
      BY <2>6 DEF TruncateDatakey, WriteDatakey
    <3>2. Filed(datakey, account_group)' <=> Filed(datakey, account_group)
      BY <3>1 DEF Filed
    <3> QED
      BY <2>1, <2>3, <3>1, <3>2 DEF AInv
  <2>7. CASE SendResponse
    <3>1. /\ pc = "reply" /\ pc' = "loop" /\ UNCHANGED reqQue
          /\ \A a \in answers' : a \in answers \/
                a = [key |-> datakey, group |-> account_group]
      BY <2>7 DEF SendResponse, disk
    <3>2. ASSUME NEW a \in answers', a.key # ErrorKey
          PROVE  Filed(a.key, a.group)'
      <4>1. CASE a = [key |-> datakey, group |-> account_group]
        <5>1. Filed(a.key, a.group)
          BY <2>1, <3>1, <3>2, <4>1 DEF AInv, Filed
        <5> QED
          BY <3>1, <5>1 DEF Filed
      <4> QED
        BY <2>3, <3>1, <3>2, <4>1
    <3> QED
      BY <2>1, <3>1, <3>2
  <2>9. CASE /\ UNCHANGED <<reqQue, answers>>
             /\ pc' \in {"truncate", "write", "reply"} =>
                   UNCHANGED <<pc, datakey, account_group>>
    BY <2>1, <2>3, <2>9 DEF AInv, Filed
  <2>10. CASE AllocDatakey
    BY <2>1, <2>3, <2>10 DEF AllocDatakey
  <2> QED
    BY <2>4, <2>5, <2>6, <2>7, <2>9, <2>10
       DEF Next, Insert, vars, disk, RollDate, SetStatus, InitServer, Stop, Crash, Interrupt,
           AcceptUser, RemoveUser, ReceiveRequest
<1> QED
  BY <1>1, <1>2 DEF AInv

\* Whatever is killed and restarted, a service that holds a datakey as the
\* answer to its request has its request in a queue file of its group.
THEOREM RequestAnsweredIsQueued == Spec => []AnsweredIsQueued
<1>1. Init => AInv
  <2>1. Init => PendingIsQueued /\ AnsweredIsQueued
    BY DEF Init, PendingIsQueued, AnsweredIsQueued
  <2> QED
    BY <2>1, TypeInit DEF AInv
<1>2. AInv => AnsweredIsQueued
  BY DEF AInv
<1> QED
  BY <1>1, <1>2, AnswersStep, PTL DEF Spec

----------------------------------------------------------------------------
(* The user table *)

\* A descriptor with an event has exactly one slot, and GetUserOffset finds it.
LEMMA OffsetFacts ==
    ASSUME TypeInv, UserTableExact, pc # "down", NEW fd \in epoll
    PROVE  /\ GetUserOffset(fd) \in Offsets
           /\ request_user[GetUserOffset(fd)] = fd
           /\ fd # 0
<1>1. fd \in Online
  BY DEF UserTableExact
<1>2. PICK i \in Offsets : request_user[i] = fd /\ fd # 0
  BY <1>1 DEF Online
<1>3. \A j \in Offsets : request_user[j] = fd => i = j
  BY <1>2 DEF UserTableExact
<1>4. i \in Int
  BY ConstantFacts DEF Offsets
<1>5. \E k \in Offsets : /\ request_user[k] = fd
                         /\ \A j \in Offsets : request_user[j] = fd => k <= j
  BY <1>2, <1>3, <1>4
<1> QED
  BY <1>2, <1>5 DEF GetUserOffset

UInv == TypeInv /\ UserTableExact

LEMMA UsersStep == UInv /\ [Next]_vars => UInv'
<1> SUFFICES ASSUME UInv, [Next]_vars PROVE UInv'
  OBVIOUS
<1>1. TypeInv /\ TypeInv' /\ request_user \in [Offsets -> Fds \cup {0}]
  BY TypeStep DEF UInv, TypeInv, TypeOK
<1>2. CASE InitServer
  BY <1>1, <1>2 DEF InitServer, NoUsers, UInv, UserTableExact, Online
<1>3. ASSUME NEW fd \in Fds, AcceptUser(fd) PROVE UInv'
  <2>1. PICK i \in Offsets : /\ request_user[i] = 0
                             /\ request_user' = [request_user EXCEPT ![i] = fd]
    BY <1>3 DEF AcceptUser
  <2>2. /\ pc # "down" /\ fd \notin Online /\ fd # 0 /\ epoll' = epoll \cup {fd}
        /\ UserTableExact
    BY <1>3, ConstantFacts DEF AcceptUser, UInv
  <2>3. Online' = Online \cup {fd}
    BY <1>1, <2>1, <2>2 DEF Online
  <2>4. \A a, b \in Offsets :
            request_user'[a] = request_user'[b] /\ request_user'[a] # 0 => a = b
    BY <1>1, <2>1, <2>2 DEF UserTableExact, Online
  <2> QED
    BY <1>1, <2>2, <2>3, <2>4 DEF UInv, UserTableExact
<1>4. ASSUME NEW fd \in Fds, RemoveUser(fd) PROVE UInv'
  <2> DEFINE i == GetUserOffset(fd)
  <2>1. /\ pc # "down" /\ fd \in epoll /\ epoll' = epoll \ {fd} /\ UserTableExact
        /\ request_user' = [request_user EXCEPT ![i] = 0]
    BY <1>4 DEF RemoveUser, UInv
  <2>2. i \in Offsets /\ request_user[i] = fd /\ fd # 0
    BY <1>1, <2>1, OffsetFacts
  <2> HIDE DEF i
  <2>3. Online' = Online \ {fd}
    BY <1>1, <2>1, <2>2 DEF Online, UserTableExact
  <2>4. \A a, b \in Offsets :
            request_user'[a] = request_user'[b] /\ request_user'[a] # 0 => a = b
    BY <1>1, <2>1, <2>2 DEF UserTableExact
  <2> QED
    BY <1>1, <2>1, <2>3, <2>4 DEF UInv, UserTableExact
<1>5. CASE UNCHANGED users /\ (pc' # "down" => pc # "down")
  BY <1>1, <1>5 DEF users, UInv, UserTableExact, Online
<1>6. CASE Crash \/ Interrupt
  BY <1>1, <1>6 DEF Crash, Interrupt, Stop, UInv, UserTableExact
<1> QED
  BY <1>2, <1>3, <1>4, <1>5, <1>6
     DEF Next, Insert, vars, users, RollDate, SetStatus,
         ReceiveRequest, AllocDatakey, AppendLine, AppendFails, TruncateDatakey,
         WriteDatakey, SendResponse

\* Table, epoll set and slots in use agree whenever the server runs.
THEOREM RequestUserTable == Spec => []UserTableExact
<1>1. Init => UInv
  BY TypeInit DEF Init, UInv, UserTableExact
<1>2. UInv => UserTableExact
  BY DEF UInv
<1> QED
  BY <1>1, <1>2, UsersStep, PTL DEF Spec
=============================================================================
